---- MODULE Spec2Model ----
(***************************************************************************)
(* Model of the application-name reconciliation and criteria evaluation of *)
(* the bank-application reporting pipeline (src/masters/slide_generator.py *)
(* and its callers).                                                       *)
(*                                                                         *)
(* A Python str is a sequence of characters; a character is a one-symbol   *)
(* TLA+ string ("a", "(", " ").  A character outside ASCII is written by   *)
(* name ("Eacute", "sub2", "copyright", "nbsp").  A Python value is a      *)
(* record with a field "type" (str, NoneType, int, float).                 *)
(***************************************************************************)
EXTENDS Integers, Sequences, FiniteSets, TLC

VARIABLES
    norm_pc,      \* normalizer run: "start", "once", "twice"
    norm_in,      \* the argument of normalize_string
    norm_out,     \* outcome of normalize_string(norm_in)
    norm_out2,    \* outcome of normalize_string applied to the key of norm_out
    match_pc,     \* matcher run: "load", "lookup", "matched"
    src_names,    \* the distinct non-null application names of one source
    choices,      \* the lookup built from src_names
    line_app_name,  \* the application name of an input line
    excel_match,  \* result of find_best_match(line_app_name, choices)
    eval_pc,      \* evaluator run: "row", "done"
    eval_row,     \* the record of the matched application
    bank_name_eval,         \* "BuyerBank" or "BoughtBank"
    eval_map,     \* the column mapping handed to evaluar_criterios
    resultados_evaluacion,  \* the dict evaluar_criterios returned
    drv_pc,       \* driver run: "files", "lines", "saved"
    app_column,   \* the name of the application column of the two frames
    txt_files,    \* the parsed lines of the .txt files, in processing order
    file_i,       \* index of the file being processed
    sorted_app_lines_data,  \* the lines of the current file, sorted
    line_i,       \* index of the line the loop is at
    drv_bank,     \* bank_name_eval of the line
    drv_match,    \* excel_match_name of the line
    drv_write,    \* outcome of the UPDATE of the line
    drv_row,      \* row of the line
    choices_buyer,   \* the lookup of df_buyer
    choices_bought,  \* the lookup of df_bought
    pending_lines,  \* the pending list of the current call
    slide_log,    \* per line the loop reached: what it printed, wrote and drew
    db_si,        \* (table, name) of the records the run has marked 'Si'
    returned,     \* the pending lists the calls returned, one per call
    fatal,        \* the files whose call raised, with the error
    pendientes_file,  \* the lines of outputs/pendientes/pendientes.txt
    rep_pc,       \* report run: "line", "matched", "row", "rows", "done"
    rep_lines,    \* the lines of the file the report reads
    rep_choices,  \* the lookups of the two frames the report loaded
    rep_i,        \* index of the line the report is at
    rep_bank,     \* bank_name_eval of the line
    rep_match,    \* excel_match_name of the line
    rep_row,      \* row of the line
    all_app_evaluations,  \* the evaluation rows of the report
    final_results,  \* the rows of the summary, one per group
    ord_pc,       \* ordering run: "scan", "ordered", "skipped", "saved"
    domain_name,  \* the name of the domain folder
    all_txt_files_in_folder,  \* the .txt files of the folder
    files_to_process_in_order,  \* the list the file loop iterates
    base_i,       \* index of base_name in ordered_base_names
    txt_i,        \* index of txt_filename in files_to_process_in_order
    sheets,       \* the sheets of the report workbook, by sheet name
    main_pc,      \* main_orchestrator run: "load", "unpack", "raised", ...
    db_state,     \* the database main_orchestrator finds: "up", "down", "unreadable"
    input_folder, \* the domain folders of inputs/, each with its .txt files
    loaded,       \* the value load_data_from_db returned
    main_raised,  \* the exception that left main_orchestrator, or "none"
    wait_pc,      \* position in wait_for_db and load_data_to_db
    wait_caller,  \* who called wait_for_db: "load_data_to_db" or "direct"
    retries,      \* the retries argument of wait_for_db
    wait_time,    \* the wait_time argument of wait_for_db
    wait_i,       \* the loop variable i of wait_for_db
    wait_ret,     \* the outcome of wait_for_db
    attempts,     \* number of connection attempts made
    tables,       \* the tables load_data_to_db has written
    sug_pc,       \* parse_pendientes run: "open", "parse", "returned", "nofile"
    pendientes,   \* the lines of pendientes.txt
    sug_i,        \* index of the line parse_pendientes is at
    pending_buyer,   \* the set pending_buyer of parse_pendientes
    pending_bought,  \* the set pending_bought of parse_pendientes
    dedup_pc,     \* deduplicate_columns run: "for", "returned"
    df_columns,   \* df.columns handed to deduplicate_columns
    new_cols,     \* the list new_cols of deduplicate_columns
    counts        \* the dict counts of deduplicate_columns

normVars == <<norm_pc, norm_in, norm_out, norm_out2>>
matchVars == <<match_pc, src_names, choices, line_app_name, excel_match>>
evalVars == <<eval_pc, eval_row, bank_name_eval, eval_map, resultados_evaluacion>>
drvVars ==
    <<drv_pc, app_column, txt_files, file_i, sorted_app_lines_data, line_i,
      drv_bank, drv_match, drv_write, drv_row, choices_buyer, choices_bought,
      pending_lines, slide_log, db_si, returned, fatal, pendientes_file>>
repVars ==
    <<rep_pc, rep_lines, rep_choices, rep_i, rep_bank, rep_match, rep_row,
      all_app_evaluations, final_results, sheets>>
ordVars ==
    <<ord_pc, domain_name, all_txt_files_in_folder, files_to_process_in_order,
      base_i, txt_i>>
mainVars == <<main_pc, db_state, input_folder, loaded, main_raised>>
waitVars ==
    <<wait_pc, wait_caller, retries, wait_time, wait_i, wait_ret, attempts, tables>>
sugVars == <<sug_pc, pendientes, sug_i, pending_buyer, pending_bought>>
dedupVars == <<dedup_pc, df_columns, new_cols, counts>>
toolVars == <<mainVars, waitVars, sugVars, dedupVars>>
vars == <<normVars, matchVars, evalVars, drvVars, repVars, ordVars, toolVars>>

-----------------------------------------------------------------------------
(* Bounds *)

\* Number of fragments a normalizer input is assembled from.
MaxFrags == 3

\* Number of distinct application names of a source.
MaxNames == 3

-----------------------------------------------------------------------------
(* Python values and call outcomes *)

PyStr(chars) == [type |-> "str", s |-> chars]
PyNone == [type |-> "NoneType"]
PyNaN == [type |-> "float", nan |-> TRUE]
PyInt(n) == [type |-> "int", n |-> n]

\* A call either returns a value or raises.
Ret(v) == [exc |-> "none", val |-> v]
Raise(e) == [exc |-> e, val |-> <<>>]
NoCall == [exc |-> "notcalled", val |-> <<>>]

-----------------------------------------------------------------------------
(* Characters *)

LowerLetters ==
    <<"a","b","c","d","e","f","g","h","i","j","k","l","m",
      "n","o","p","q","r","s","t","u","v","w","x","y","z">>
UpperLetters ==
    <<"A","B","C","D","E","F","G","H","I","J","K","L","M",
      "N","O","P","Q","R","S","T","U","V","W","X","Y","Z">>
DigitChars == <<"0","1","2","3","4","5","6","7","8","9">>

Range(f) == {f[i] : i \in DOMAIN f}

\* \s of the re module and the characters str.strip() removes.
Whitespace == {" ", "\t", "\n"}

\* The subscript digits of subscript_map.
SubscriptDigits ==
    {"sub0","sub1","sub2","sub3","sub4","sub5","sub6","sub7","sub8","sub9"}

IndexOf(seq, c) == CHOOSE i \in DOMAIN seq : seq[i] = c

\* str.lower() / str.upper() on one character.
LowerChar(c) ==
    IF c \in Range(UpperLetters) THEN LowerLetters[IndexOf(UpperLetters, c)] ELSE c
UpperChar(c) ==
    IF c \in Range(LowerLetters) THEN UpperLetters[IndexOf(LowerLetters, c)] ELSE c

\* unidecode() of one character: ASCII is kept, anything else is replaced by
\* its ASCII transliteration, which may be several characters or none.
UnidecodeChar(c) ==
    CASE c = "Eacute"    -> <<"E">>
      [] c = "oacute"    -> <<"o">>
      [] c = "ntilde"    -> <<"n">>
      [] c = "nbsp"      -> <<" ">>
      [] c = "copyright" -> <<"(", "c", ")">>
      [] c = "euro"      -> <<"E", "U", "R">>
      [] c \in SubscriptDigits ->
            <<DigitChars[1 + (CHOOSE d \in 0..9 :
                  c = <<"sub0","sub1","sub2","sub3","sub4",
                        "sub5","sub6","sub7","sub8","sub9">>[d + 1])]>>
      [] OTHER -> <<c>>

-----------------------------------------------------------------------------
(* str and re operations on character sequences *)

str_lower(s) == [i \in DOMAIN s |-> LowerChar(s[i])]
str_upper(s) == [i \in DOMAIN s |-> UpperChar(s[i])]

\* text.translate(subscript_map): every subscript digit becomes a space.
TranslateSubscripts(s) ==
    [i \in DOMAIN s |-> IF s[i] \in SubscriptDigits THEN " " ELSE s[i]]

RECURSIVE unidecode(_)
\* unidecode(s): the transliterations of the characters, concatenated.
unidecode(s) ==
    IF s = <<>> THEN <<>> ELSE UnidecodeChar(Head(s)) \o unidecode(Tail(s))

Drop(s, n) == SubSeq(s, n + 1, Len(s))

StartsWith(s, w) == Len(w) <= Len(s) /\ SubSeq(s, 1, Len(w)) = w

\* Python's  w in s  for strings.
Contains(s, w) == \E i \in 0..(Len(s) - Len(w)) : SubSeq(s, i + 1, i + Len(w)) = w

RECURSIVE str_replace(_, _)
\* s.replace(w, ""): the leftmost non-overlapping occurrences of w are deleted,
\* in one pass (the text joined by a deletion is not scanned again).
str_replace(s, w) ==
    IF s = <<>> THEN <<>>
    ELSE IF StartsWith(s, w) THEN str_replace(Drop(s, Len(w)), w)
    ELSE <<Head(s)>> \o str_replace(Tail(s), w)

RECURSIVE SkipWs(_, _)
\* The first position >= i of s that holds no whitespace (Len(s)+1 if none).
SkipWs(s, i) ==
    IF i <= Len(s) /\ s[i] \in Whitespace THEN SkipWs(s, i + 1) ELSE i

RECURSIVE SubParens(_)
\* re.sub(r"\s*\([^)]*\)\s*", " ", s): scanning from the left, a match starts
\* at a run of whitespace (possibly empty) followed by "(", runs to the first
\* ")" after it and takes the whitespace behind it; a "(" with no ")" behind it
\* matches nothing.
SubParens(s) ==
    IF s = <<>> THEN <<>>
    ELSE LET j == SkipWs(s, 1)
             closes == {k \in (j + 1)..Len(s) : s[k] = ")"}
         IN IF j <= Len(s) /\ s[j] = "(" /\ closes # {}
            THEN LET k == CHOOSE x \in closes : \A y \in closes : x <= y
                 IN <<" ">> \o SubParens(Drop(s, SkipWs(s, k + 1) - 1))
            ELSE <<Head(s)>> \o SubParens(Tail(s))

\* The characters [a-z0-9\s-] keeps.
KeptChars == Range(LowerLetters) \cup Range(DigitChars) \cup Whitespace \cup {"-"}

\* re.sub(r"[^a-z0-9\s-]", "", s)
StripOtherChars(s) == SelectSeq(s, LAMBDA c : c \in KeptChars)

RECURSIVE LStrip(_)
LStrip(s) == IF s # <<>> /\ Head(s) \in Whitespace THEN LStrip(Tail(s)) ELSE s

RECURSIVE RStrip(_)
RStrip(s) ==
    IF s # <<>> /\ s[Len(s)] \in Whitespace THEN RStrip(SubSeq(s, 1, Len(s) - 1)) ELSE s

\* str.strip()
str_strip(s) == RStrip(LStrip(s))

RECURSIVE CollapseWs(_)
\* re.sub(r"\s+", " ", s)
CollapseWs(s) ==
    IF s = <<>> THEN <<>>
    ELSE IF Head(s) \in Whitespace
         THEN <<" ">> \o CollapseWs(Drop(s, SkipWs(s, 1) - 1))
         ELSE <<Head(s)>> \o CollapseWs(Tail(s))

-----------------------------------------------------------------------------
(* normalize_string *)

W_incluida_en_venta ==
    <<"i","n","c","l","u","i","d","a"," ","e","n"," ","v","e","n","t","a">>
W_tsa == <<"t","s","a">>
W_no_tsa == <<"n","o"," ","t","s","a">>

\* noise_words, in the order of the list.
noise_words == <<W_incluida_en_venta, W_tsa, W_no_tsa>>

RECURSIVE RemoveNoise(_, _)
\* for word in noise_words: clean_text = clean_text.replace(word, "")
RemoveNoise(s, words) ==
    IF words = <<>> THEN s
    ELSE RemoveNoise(str_replace(s, Head(words)), Tail(words))

\* The body of normalize_string for a str argument.
NormalizeChars(s) ==
    LET t1 == TranslateSubscripts(s)
        t2 == str_lower(unidecode(t1))
        t3 == SubParens(t2)
        t4 == RemoveNoise(t3, noise_words)
        t5 == StripOtherChars(t4)
        t6 == str_strip(t5)
    IN CollapseWs(t6)

\* normalize_string without its isinstance guard: str.translate of a value
\* that is no str raises.
normalize_string_unguarded(text) ==
    IF text.type # "str" THEN Raise("AttributeError")
    ELSE Ret(NormalizeChars(text.s))

\* normalize_string(text): the outcome of the call.
normalize_string(text) ==
    IF text.type # "str" THEN Ret(<<>>)
    ELSE Ret(NormalizeChars(text.s))

\* The key normalize_string returns for the characters s.
NormKey(s) == normalize_string(PyStr(s)).val

-----------------------------------------------------------------------------
(* thefuzz: utils.full_process, fuzz.token_set_ratio, process.extractOne    *)
(* (the releases built on rapidfuzz: an empty token set scores 0).          *)

\* Characters outside ASCII, which full_process(force_ascii=True) drops.
NonAsciiChars ==
    SubscriptDigits \cup {"Eacute", "oacute", "ntilde", "nbsp", "copyright", "euro"}

AlnumChars == Range(LowerLetters) \cup Range(UpperLetters) \cup Range(DigitChars)

\* utils.full_process(s, force_ascii=True): non-ASCII characters are dropped,
\* every character that is no letter or digit becomes a space, the text is
\* lower-cased and stripped.
full_process(s) ==
    LET ascii == SelectSeq(s, LAMBDA c : c \notin NonAsciiChars)
        spaced == [i \in DOMAIN ascii |->
                      IF ascii[i] \in AlnumChars THEN ascii[i] ELSE " "]
    IN str_strip(str_lower(spaced))

RECURSIVE TokenList(_, _)
\* s.split(): the maximal runs of non-whitespace, in order; cur is the token
\* being read.
TokenList(s, cur) ==
    IF s = <<>> THEN (IF cur = <<>> THEN <<>> ELSE <<cur>>)
    ELSE IF Head(s) \in Whitespace
         THEN (IF cur = <<>> THEN <<>> ELSE <<cur>>) \o TokenList(Tail(s), <<>>)
         ELSE TokenList(Tail(s), Append(cur, Head(s)))

\* set(s.split())
TokenSet(s) == Range(TokenList(s, <<>>))

\* Code-point order of the characters a processed string holds.
CodeOrder == <<" ">> \o DigitChars \o LowerLetters
CharOrd(c) == IndexOf(CodeOrder, c)

RECURSIVE StrLess(_, _)
\* a < b for Python strings.
StrLess(a, b) ==
    IF b = <<>> THEN FALSE
    ELSE IF a = <<>> THEN TRUE
    ELSE IF Head(a) = Head(b) THEN StrLess(Tail(a), Tail(b))
    ELSE CharOrd(Head(a)) < CharOrd(Head(b))

RECURSIVE SortedJoin(_)
\* " ".join(sorted(tokens))
SortedJoin(tokens) ==
    IF tokens = {} THEN <<>>
    ELSE LET m == CHOOSE x \in tokens : \A y \in tokens \ {x} : StrLess(x, y)
             rest == SortedJoin(tokens \ {m})
         IN IF rest = <<>> THEN m ELSE m \o <<" ">> \o rest

MaxOf(x, y) == IF x >= y THEN x ELSE y

RECURSIVE LcsRow(_, _, _, _)
\* One row of the longest-common-subsequence table: cur[j+1] is the LCS length
\* of the prefix of a ending in character c and the first j characters of b.
LcsRow(c, b, prev, cur) ==
    IF Len(cur) = Len(b) + 1 THEN cur
    ELSE LET j == Len(cur)
         IN LcsRow(c, b, prev,
                   Append(cur, IF b[j] = c THEN prev[j] + 1
                               ELSE MaxOf(prev[j + 1], cur[j])))

RECURSIVE LcsFrom(_, _, _, _)
LcsFrom(a, b, i, prev) ==
    IF i > Len(a) THEN prev[Len(b) + 1]
    ELSE LcsFrom(a, b, i + 1, LcsRow(a[i], b, prev, <<0>>))

\* Length of a longest common subsequence of a and b.
LcsLen(a, b) == LcsFrom(a, b, 1, [j \in 1..(Len(b) + 1) |-> 0])

\* int(round(x)) for the fraction num/den >= 0: Python rounds a half to even.
RoundHalfEven(num, den) ==
    LET q == num \div den
        r == num % den
    IN IF 2 * r < den THEN q
       ELSE IF 2 * r > den THEN q + 1
       ELSE IF q % 2 = 0 THEN q ELSE q + 1

\* fuzz.ratio: the normalized indel similarity 100 * 2*LCS / (len(a)+len(b)).
ratio(a, b) ==
    IF Len(a) + Len(b) = 0 THEN 100
    ELSE RoundHalfEven(200 * LcsLen(a, b), Len(a) + Len(b))

\* fuzz.token_set_ratio(s1, s2) on processed strings.
token_set_ratio(s1, s2) ==
    LET tokens1 == TokenSet(s1)
        tokens2 == TokenSet(s2)
        sect == SortedJoin(tokens1 \cap tokens2)
        diff1to2 == SortedJoin(tokens1 \ tokens2)
        diff2to1 == SortedJoin(tokens2 \ tokens1)
        combined1 == str_strip(sect \o <<" ">> \o diff1to2)
        combined2 == str_strip(sect \o <<" ">> \o diff2to1)
    IN IF tokens1 = {} \/ tokens2 = {} THEN 0
       ELSE MaxOf(ratio(sect, combined1),
                  MaxOf(ratio(sect, combined2), ratio(combined1, combined2)))

\* The score process.extractOne gives the candidate key for the query.
Score(query, key) == token_set_ratio(full_process(query), full_process(key))

RECURSIVE BestFrom(_, _, _, _)
\* The scan of process.extractOne: the first candidate with the highest score.
BestFrom(query, keys, i, best) ==
    IF i > Len(keys) THEN best
    ELSE LET sc == Score(query, keys[i])
         IN BestFrom(query, keys, i + 1,
                     IF best.key = PyNone \/ sc > best.score
                     THEN [key |-> PyStr(keys[i]), score |-> sc]
                     ELSE best)

\* process.extractOne(query, keys, scorer=fuzz.token_set_ratio): None for no
\* candidates, else (key, score).
extractOne(query, keys) == BestFrom(query, keys, 1, [key |-> PyNone, score |-> 0])

-----------------------------------------------------------------------------
(* Lookups: a dict is the sequence of its (key, value) items in insertion   *)
(* order, with distinct keys.                                               *)

DictKeys(d) == [i \in DOMAIN d |-> d[i].key]
HasKey(d, k) == \E i \in DOMAIN d : d[i].key = k
DictGet(d, k) == d[CHOOSE i \in DOMAIN d : d[i].key = k].value

\* d[k] = v with a present key keeping its old value.
DictSet_keep_first(d, k, v) ==
    IF HasKey(d, k) THEN d ELSE Append(d, [key |-> k, value |-> v])

\* d[k] = v: a present key keeps its place and takes the new value.
DictSet(d, k, v) ==
    IF HasKey(d, k)
    THEN [i \in DOMAIN d |-> IF d[i].key = k THEN [key |-> k, value |-> v] ELSE d[i]]
    ELSE Append(d, [key |-> k, value |-> v])

RECURSIVE BuildChoices(_, _)
\* {normalize_string(name): name for name in names}
BuildChoices(names, d) ==
    IF names = <<>> THEN d
    ELSE BuildChoices(Tail(names), DictSet(d, NormKey(Head(names)), Head(names)))

-----------------------------------------------------------------------------
(* find_best_match *)

SIMILARITY_THRESHOLD_PCT == 90

\* The result of a call of find_best_match: the value returned and the keys
\* handed to the scorer.
Found(v, scored) == [ret |-> v, scored |-> scored]

\* find_best_match returning the raw name for an empty lookup.
find_best_match_echo(app_name, choices_dict) ==
    LET normalized_name == NormKey(app_name)
        match == extractOne(normalized_name, DictKeys(choices_dict))
    IN IF choices_dict = <<>> THEN Found(PyStr(app_name), <<>>)
       ELSE IF HasKey(choices_dict, normalized_name)
       THEN Found(PyStr(DictGet(choices_dict, normalized_name)), <<>>)
       ELSE IF match.key # PyNone /\ match.score >= SIMILARITY_THRESHOLD_PCT
       THEN Found(PyStr(DictGet(choices_dict, match.key.s)), DictKeys(choices_dict))
       ELSE Found(PyNone, DictKeys(choices_dict))

\* find_best_match without the exact-key path.
find_best_match_fuzzy_only(app_name, choices_dict) ==
    LET normalized_name == NormKey(app_name)
        match == extractOne(normalized_name, DictKeys(choices_dict))
    IN IF choices_dict = <<>> THEN Found(PyNone, <<>>)
       ELSE IF match.key # PyNone /\ match.score >= SIMILARITY_THRESHOLD_PCT
       THEN Found(PyStr(DictGet(choices_dict, match.key.s)), DictKeys(choices_dict))
       ELSE Found(PyNone, DictKeys(choices_dict))

\* find_best_match comparing the score with > instead of >=.
find_best_match_strict(app_name, choices_dict) ==
    LET normalized_name == NormKey(app_name)
        match == extractOne(normalized_name, DictKeys(choices_dict))
    IN IF choices_dict = <<>> THEN Found(PyNone, <<>>)
       ELSE IF HasKey(choices_dict, normalized_name)
       THEN Found(PyStr(DictGet(choices_dict, normalized_name)), <<>>)
       ELSE IF match.key # PyNone /\ match.score > SIMILARITY_THRESHOLD_PCT
       THEN Found(PyStr(DictGet(choices_dict, match.key.s)), DictKeys(choices_dict))
       ELSE Found(PyNone, DictKeys(choices_dict))

\* find_best_match returning the name it was asked for on an exact key.
find_best_match_returns_query(app_name, choices_dict) ==
    LET normalized_name == NormKey(app_name)
        match == extractOne(normalized_name, DictKeys(choices_dict))
    IN IF choices_dict = <<>> THEN Found(PyNone, <<>>)
       ELSE IF HasKey(choices_dict, normalized_name)
       THEN Found(PyStr(app_name), <<>>)
       ELSE IF match.key # PyNone /\ match.score >= SIMILARITY_THRESHOLD_PCT
       THEN Found(PyStr(DictGet(choices_dict, match.key.s)), DictKeys(choices_dict))
       ELSE Found(PyNone, DictKeys(choices_dict))

\* find_best_match(app_name, choices_dict)
find_best_match(app_name, choices_dict) ==
    LET normalized_name == NormKey(app_name)
        match == extractOne(normalized_name, DictKeys(choices_dict))
    IN IF choices_dict = <<>> THEN Found(PyNone, <<>>)
       ELSE IF HasKey(choices_dict, normalized_name)
       THEN Found(PyStr(DictGet(choices_dict, normalized_name)), <<>>)
       ELSE IF match.key # PyNone /\ match.score >= SIMILARITY_THRESHOLD_PCT
       THEN Found(PyStr(DictGet(choices_dict, match.key.s)), DictKeys(choices_dict))
       ELSE Found(PyNone, DictKeys(choices_dict))

-----------------------------------------------------------------------------
(* Cells of a record (a row of a DataFrame) and their text *)

\* A float with one decimal digit: whole.tenth
PyFloat(whole, tenth) == [type |-> "float", nan |-> FALSE, whole |-> whole, tenth |-> tenth]

RECURSIVE NatToStr(_)
\* str(n) for an int n >= 0
NatToStr(n) ==
    IF n < 10 THEN <<DigitChars[n + 1]>>
    ELSE NatToStr(n \div 10) \o <<DigitChars[(n % 10) + 1]>>

\* str(value)
py_str(value) ==
    CASE value.type = "str" -> value.s
      [] value.type = "int" -> NatToStr(value.n)
      [] value.type = "float" /\ ~value.nan ->
            NatToStr(value.whole) \o <<".">> \o NatToStr(value.tenth)
      [] value.type = "float" /\ value.nan -> <<"n","a","n">>
      [] OTHER -> <<"N","o","n","e">>

\* pd.notna(value)
pd_notna(value) ==
    ~(value.type = "NoneType" \/ (value.type = "float" /\ value.nan))

\* The name criteria_map.get(k) gives when k has no entry or maps to None.
ColNone == "None"

\* criteria_map.get(k)
MapGet(criteria_map, k) ==
    IF k \in DOMAIN criteria_map THEN criteria_map[k] ELSE ColNone

\* get_value_from_row(row, col_name): None, or the stripped text of the first
\* cell the row holds under col_name.  row[c] is the sequence of the cells of
\* the columns named c (more than one for duplicated column names).
get_value_from_row(row, col_name) ==
    IF col_name = ColNone \/ col_name \notin DOMAIN row THEN PyNone
    ELSE LET value == row[col_name][1]
         IN IF pd_notna(value) THEN PyStr(str_strip(py_str(value))) ELSE PyNone

\* not v, for v a str or None
Falsy(v) == v = PyNone \/ v = PyStr(<<>>)

IsLetter(c) == c \in Range(LowerLetters) \cup Range(UpperLetters)

\* str.title(): a letter that follows a letter is lower-cased, any other
\* letter is upper-cased.
str_title(s) ==
    [i \in DOMAIN s |->
        IF i > 1 /\ IsLetter(s[i - 1]) THEN LowerChar(s[i]) ELSE UpperChar(s[i])]

IsDigits(s) == \A i \in DOMAIN s : s[i] \in Range(DigitChars)

RECURSIVE DigitsToNat(_)
DigitsToNat(s) ==
    IF s = <<>> THEN 0
    ELSE 10 * DigitsToNat(SubSeq(s, 1, Len(s) - 1)) + (IndexOf(DigitChars, s[Len(s)]) - 1)

NotAFloat == [ok |-> FALSE]

\* float(s) for the texts without exponent and underscores: surrounding
\* whitespace, a sign, then nan, inf, infinity (any case) or digits with at
\* most one point and a digit on one side of it.  ok = FALSE is ValueError.
py_float(s0) ==
    LET s == str_strip(s0)
        signed == s # <<>> /\ Head(s) \in {"+", "-"}
        neg == s # <<>> /\ Head(s) = "-"
        body == IF signed THEN Tail(s) ELSE s
        low == str_lower(body)
        dots == {i \in DOMAIN body : body[i] = "."}
    IN IF low = <<"n","a","n">>
       THEN [ok |-> TRUE, kind |-> "nan"]
       ELSE IF low \in {<<"i","n","f">>, <<"i","n","f","i","n","i","t","y">>}
       THEN [ok |-> TRUE, kind |-> "inf"]
       ELSE IF dots = {}
       THEN IF body # <<>> /\ IsDigits(body)
            THEN [ok |-> TRUE, kind |-> "num", neg |-> neg,
                  whole |-> DigitsToNat(body), fraczero |-> TRUE]
            ELSE NotAFloat
       ELSE IF Cardinality(dots) = 1
       THEN LET d == CHOOSE i \in dots : TRUE
                ip == SubSeq(body, 1, d - 1)
                fp == SubSeq(body, d + 1, Len(body))
            IN IF IsDigits(ip) /\ IsDigits(fp) /\ (ip # <<>> \/ fp # <<>>)
               THEN [ok |-> TRUE, kind |-> "num", neg |-> neg,
                     whole |-> DigitsToNat(ip),
                     fraczero |-> \A i \in DOMAIN fp : fp[i] = "0"]
               ELSE NotAFloat
       ELSE NotAFloat

\* x == n for a parsed float x and an int n >= 1
FloatIs(x, n) ==
    x.ok /\ x.kind = "num" /\ ~x.neg /\ x.fraczero /\ x.whole = n

-----------------------------------------------------------------------------
(* evaluar_criterios *)

L_no_obsoleto == <<"n","o"," ","o","b","s","o","l","e","t","o">>
L_obsoleto == <<"o","b","s","o","l","e","t","o">>
L_SI == <<"S","I">>
L_NO == <<"N","O">>
L_Cumple == <<"C","u","m","p","l","e">>
L_Parcialmente == <<"P","a","r","c","i","a","l","m","e","n","t","e">>
L_NA == <<"N","/","A">>
L_0 == <<"0">>

\* Obsolescencia with the two tests in the other order.
eval_obsolescencia_swapped(row, criteria_map) ==
    LET valor_obs_raw == get_value_from_row(row, MapGet(criteria_map, "obsolescencia"))
    IN IF Falsy(valor_obs_raw) \/ valor_obs_raw = PyStr(L_0) THEN ""
       ELSE LET valor_lower == str_lower(valor_obs_raw.s)
            IN IF Contains(valor_lower, L_obsoleto) THEN "No Cumple"
               ELSE IF Contains(valor_lower, L_no_obsoleto) THEN "Cumple"
               ELSE ""

\* 1. OBSOLESCENCIA
eval_obsolescencia(row, criteria_map) ==
    LET valor_obs_raw == get_value_from_row(row, MapGet(criteria_map, "obsolescencia"))
    IN IF Falsy(valor_obs_raw) \/ valor_obs_raw = PyStr(L_0) THEN ""
       ELSE LET valor_lower == str_lower(valor_obs_raw.s)
            IN IF Contains(valor_lower, L_no_obsoleto) THEN "Cumple"
               ELSE IF Contains(valor_lower, L_obsoleto) THEN "No Cumple"
               ELSE ""

\* 2. ESCALABILIDAD
eval_escalabilidad(row, criteria_map) ==
    LET valor_esc_raw == get_value_from_row(row, MapGet(criteria_map, "escalabilidad"))
    IN IF ~Falsy(valor_esc_raw)
       THEN LET valor_upper == str_upper(valor_esc_raw.s)
            IN IF valor_upper = L_SI THEN "Cumple"
               ELSE IF valor_upper = L_NO THEN "No Cumple"
               ELSE ""
       ELSE ""

\* Acople read through the mapping like the other criteria.
eval_acople_mapped(row, criteria_map) ==
    IF Falsy(get_value_from_row(row, MapGet(criteria_map, "acople")))
    THEN "" ELSE "Parcialmente"

\* 3. ACOPLE
eval_acople(row, criteria_map) == "Parcialmente"

\* 4. ESTABILIDAD
eval_estabilidad(row, criteria_map) ==
    LET valor_estab_raw == get_value_from_row(row, MapGet(criteria_map, "estabilidad"))
    IN IF Falsy(valor_estab_raw) \/ valor_estab_raw = PyStr(L_0) THEN ""
       ELSE LET valor_upper == str_upper(valor_estab_raw.s)
            IN IF valor_upper = L_SI THEN "No Cumple"
               ELSE IF valor_upper = L_NO THEN "Cumple"
               ELSE ""

\* Extensibilidad forced to No Cumple by an obsolescencia of No Cumple.
eval_extensibilidad_forced(row, criteria_map) ==
    LET valor_ext_raw == get_value_from_row(row, MapGet(criteria_map, "extensibilidad"))
    IN IF eval_obsolescencia(row, criteria_map) = "No Cumple" THEN "No Cumple"
       ELSE IF ~Falsy(valor_ext_raw)
       THEN LET valor_title == str_title(valor_ext_raw.s)
            IN IF valor_title = L_Cumple THEN "Cumple"
               ELSE IF valor_title = L_Parcialmente THEN "Parcialmente"
               ELSE ""
       ELSE ""

\* 5. EXTENSIBILIDAD
eval_extensibilidad(row, criteria_map) ==
    LET valor_ext_raw == get_value_from_row(row, MapGet(criteria_map, "extensibilidad"))
    IN IF ~Falsy(valor_ext_raw)
       THEN LET valor_title == str_title(valor_ext_raw.s)
            IN IF valor_title = L_Cumple THEN "Cumple"
               ELSE IF valor_title = L_Parcialmente THEN "Parcialmente"
               ELSE ""
       ELSE ""

\* Seguridad with 3 counted as No Cumple.
eval_seguridad_off_by_one(row, criteria_map) ==
    LET valor_seg_raw == get_value_from_row(row, MapGet(criteria_map, "seguridad"))
    IN IF Falsy(valor_seg_raw) \/ valor_seg_raw = PyStr(L_0) THEN ""
       ELSE LET valor_seg_num == py_float(valor_seg_raw.s)
            IN IF ~valor_seg_num.ok
               THEN (IF str_upper(valor_seg_raw.s) = L_NA THEN "N/A" ELSE "")
               ELSE IF FloatIs(valor_seg_num, 1) \/ FloatIs(valor_seg_num, 2)
                       \/ FloatIs(valor_seg_num, 3) THEN "No Cumple"
               ELSE IF FloatIs(valor_seg_num, 4) \/ FloatIs(valor_seg_num, 5) THEN "Cumple"
               ELSE "N/A"

\* 6. SEGURIDAD: the except branch is taken when float() raises ValueError.
eval_seguridad(row, criteria_map) ==
    LET valor_seg_raw == get_value_from_row(row, MapGet(criteria_map, "seguridad"))
    IN IF Falsy(valor_seg_raw) \/ valor_seg_raw = PyStr(L_0) THEN ""
       ELSE LET valor_seg_num == py_float(valor_seg_raw.s)
            IN IF ~valor_seg_num.ok
               THEN (IF str_upper(valor_seg_raw.s) = L_NA THEN "N/A" ELSE "")
               ELSE IF FloatIs(valor_seg_num, 1) \/ FloatIs(valor_seg_num, 2) THEN "No Cumple"
               ELSE IF FloatIs(valor_seg_num, 3) THEN "Parcialmente"
               ELSE IF FloatIs(valor_seg_num, 4) \/ FloatIs(valor_seg_num, 5) THEN "Cumple"
               ELSE "N/A"

\* evaluar_criterios(row, bank_name, criteria_map): the dict resultados.
\* bank_name is not read.
evaluar_criterios(row, bank_name, criteria_map) ==
    [obsolescencia  |-> eval_obsolescencia(row, criteria_map),
     escalabilidad  |-> eval_escalabilidad(row, criteria_map),
     acople         |-> eval_acople(row, criteria_map),
     estabilidad    |-> eval_estabilidad(row, criteria_map),
     extensibilidad |-> eval_extensibilidad(row, criteria_map),
     seguridad      |-> eval_seguridad(row, criteria_map)]

\* CRITERIA_DB_MAP of config.py; the pair of columns of agilidad is written
\* as one name, which is the name of no column.
CRITERIA_DB_MAP ==
    [obsolescencia  |-> "nivel_de_obsolescencia_1",
     escalabilidad  |-> "tiene_alta_disponibilidad_1",
     estabilidad    |-> "ha_presentado_caidas_o_degradacion_del_servicio_en_los_ultimo_1",
     extensibilidad |-> "extensibilidad",
     seguridad      |-> "seguridad",
     ux             |-> "ux",
     agilidad       |-> "devops_1,despliegue_a_pdn_automatizado_1",
     acople         |-> ColNone,
     cobertura      |-> ColNone,
     icon_sas       |-> "sas",
     icon_cots      |-> "nivel_de_customizacion",
     icon_cloud     |-> "nube_vs_onpremise",
     icon_regional  |-> "bns",
     tecnologia     |-> "tecnologia_subyacente"]

-----------------------------------------------------------------------------
(* Inputs of the normalizer *)

\* Pieces the names are assembled from: the noise phrases and their parts,
\* punctuation, parentheses, whitespace, accented, upper-case and subscript
\* characters.
Fragments ==
    { <<"t">>, <<"s","a">>, W_tsa, <<"n","o"," ">>, W_incluida_en_venta,
      <<".">>, <<" ">>, <<"(">>, <<")">>, <<"-">>, <<"P">>, <<"Eacute">>,
      <<"sub2">>, <<"copyright">>, <<"\t">> }

RECURSIVE Flatten(_)
Flatten(ss) == IF ss = <<>> THEN <<>> ELSE Head(ss) \o Flatten(Tail(ss))

FragSeqs == UNION {[1..n -> Fragments] : n \in 0..MaxFrags}

\* Values that are no str.
NonStrings == {PyNone, PyNaN, PyInt(0), PyInt(7)}

NormInputs == {PyStr(Flatten(fs)) : fs \in FragSeqs} \cup NonStrings

-----------------------------------------------------------------------------
(* The normalizer specification: normalize an input, then normalize the key. *)

NormIdle ==
    /\ norm_pc = "idle"
    /\ norm_in = PyNone
    /\ norm_out = NoCall
    /\ norm_out2 = NoCall

MatchIdle ==
    /\ match_pc = "idle"
    /\ src_names = <<>>
    /\ choices = <<>>
    /\ line_app_name = <<>>
    /\ excel_match = NoCall

EvalIdle ==
    /\ eval_pc = "idle"
    /\ eval_row = <<>>
    /\ bank_name_eval = "BuyerBank"
    /\ eval_map = <<>>
    /\ resultados_evaluacion = <<>>

DrvIdle ==
    /\ drv_pc = "idle"
    /\ app_column = "aplicacion_sistema"
    /\ txt_files = <<>>
    /\ file_i = 1
    /\ sorted_app_lines_data = <<>>
    /\ line_i = 1
    /\ drv_bank = "none"
    /\ drv_match = PyNone
    /\ drv_write = "none"
    /\ drv_row = PyNone
    /\ choices_buyer = <<>>
    /\ choices_bought = <<>>
    /\ pending_lines = <<>>
    /\ slide_log = <<>>
    /\ db_si = {}
    /\ returned = <<>>
    /\ fatal = <<>>
    /\ pendientes_file = <<>>

RepIdle ==
    /\ rep_pc = "idle"
    /\ rep_lines = <<>>
    /\ rep_choices = <<>>
    /\ rep_i = 1
    /\ rep_bank = "none"
    /\ rep_match = PyNone
    /\ rep_row = PyNone
    /\ all_app_evaluations = <<>>
    /\ final_results = <<>>
    /\ sheets = <<>>

OrdIdle ==
    /\ ord_pc = "idle"
    /\ domain_name = ""
    /\ all_txt_files_in_folder = {}
    /\ files_to_process_in_order = <<>>
    /\ base_i = 1
    /\ txt_i = 1

MainIdle ==
    /\ main_pc = "idle"
    /\ db_state = "none"
    /\ input_folder = <<>>
    /\ loaded = PyNone
    /\ main_raised = "none"

WaitIdle ==
    /\ wait_pc = "idle"
    /\ wait_caller = "none"
    /\ retries = 0
    /\ wait_time = 0
    /\ wait_i = 0
    /\ wait_ret = NoCall
    /\ attempts = 0
    /\ tables = {}

SugIdle ==
    /\ sug_pc = "idle"
    /\ pendientes = <<>>
    /\ sug_i = 1
    /\ pending_buyer = {}
    /\ pending_bought = {}

DedupIdle ==
    /\ dedup_pc = "idle"
    /\ df_columns = <<>>
    /\ new_cols = <<>>
    /\ counts = <<>>

ToolIdle == MainIdle /\ WaitIdle /\ SugIdle /\ DedupIdle

OtherIdle == DrvIdle /\ RepIdle /\ OrdIdle /\ ToolIdle

InitNorm ==
    /\ OtherIdle
    /\ norm_pc = "start"
    /\ norm_in \in NormInputs
    /\ norm_out = NoCall
    /\ norm_out2 = NoCall
    /\ MatchIdle
    /\ EvalIdle

\* key = normalize_string(text)
NormalizeOnce ==
    /\ norm_pc = "start"
    /\ norm_out' = normalize_string(norm_in)
    /\ norm_pc' = "once"
    /\ UNCHANGED <<norm_in, norm_out2, matchVars, evalVars, drvVars, repVars, ordVars, toolVars>>

\* normalize_string(key), for a call that returned
NormalizeTwice ==
    /\ norm_pc = "once"
    /\ norm_out.exc = "none"
    /\ norm_out2' = normalize_string(PyStr(norm_out.val))
    /\ norm_pc' = "twice"
    /\ UNCHANGED <<norm_in, norm_out, matchVars, evalVars, drvVars, repVars, ordVars, toolVars>>

NextNorm == NormalizeOnce \/ NormalizeTwice

SpecNorm == InitNorm /\ [][NextNorm]_vars

-----------------------------------------------------------------------------
(* Inputs of the matcher *)

N_PagosWeb == <<"P","a","g","o","s"," ","W","e","b">>
N_pagos_web_dot == <<"p","a","g","o","s"," ","w","e","b",".">>
N_Pagos == <<"P","a","g","o","s">>
N_SAP_FI == <<"S","A","P","-","F","I">>
N_Tesoreria == <<"T","e","s","o","r","e","r","i","a">>
N_Pagos_TSA == <<"P","a","g","o","s"," ","(","T","S","A",")">>

\* Application names of a source: two pairs of them share a normalized key,
\* one key holds a hyphen.
SourceNames ==
    {N_PagosWeb, N_pagos_web_dot, N_Pagos, N_SAP_FI, N_Tesoreria, N_Pagos_TSA}

Q_PAGOS_WEB == <<"P","A","G","O","S"," ","W","E","B">>
Q_Web_Pagos == <<"W","e","b"," ","P","a","g","o","s">>
Q_Tesoreriaxy == <<"T","e","s","o","r","e","r","i","a","x","y">>
Q_Pago == <<"P","a","g","o">>
Q_SAP_FI == <<"S","A","P"," ","F","I">>
Q_TSA == <<"T","S","A">>
Q_Nomina == <<"N","o","m","i","n","a">>

\* Names of input lines: exact keys, reordered words (score 100), scores of
\* 90 and 89 against "tesoreria" and "pagos", an empty key, an unrelated name,
\* names of the source itself.
QueryNames ==
    {Q_PAGOS_WEB, Q_Web_Pagos, Q_Tesoreriaxy, Q_Pago, Q_SAP_FI, Q_TSA, Q_Nomina, N_Pagos,
     N_PagosWeb, N_Pagos_TSA}

\* df[APP_COLUMN_NAME_DB].dropna().unique(): distinct names, in row order.
NameLists ==
    {ns \in UNION {[1..n -> SourceNames] : n \in 0..MaxNames} :
        \A i, j \in DOMAIN ns : i # j => ns[i] # ns[j]}

-----------------------------------------------------------------------------
(* The matcher specification: build the lookup of a source, match one name. *)

InitMatch ==
    /\ OtherIdle
    /\ NormIdle
    /\ EvalIdle
    /\ match_pc = "load"
    /\ src_names \in NameLists
    /\ choices = <<>>
    /\ line_app_name \in QueryNames
    /\ excel_match = NoCall

\* choices = {normalize_string(name): name for name in ...unique()}
BuildLookup ==
    /\ match_pc = "load"
    /\ choices' = BuildChoices(src_names, <<>>)
    /\ match_pc' = "lookup"
    /\ UNCHANGED <<src_names, line_app_name, excel_match, normVars, evalVars, drvVars, repVars, ordVars, toolVars>>

\* excel_match_name = find_best_match(app_name, target_choices)
FindBestMatch ==
    /\ match_pc = "lookup"
    /\ excel_match' = find_best_match(line_app_name, choices)
    /\ match_pc' = "matched"
    /\ UNCHANGED <<src_names, choices, line_app_name, normVars, evalVars, drvVars, repVars, ordVars, toolVars>>

NextMatch == BuildLookup \/ FindBestMatch

SpecMatch == InitMatch /\ [][NextMatch]_vars

\* The scores of the keys of the lookup for the normalized name.
KeyScores == {Score(NormKey(line_app_name), choices[i].key) : i \in DOMAIN choices}
MaxScore == CHOOSE m \in KeyScores : \A x \in KeyScores : x <= m

(* C2: exact path: when the normalized name is a key of the lookup,        *)
(* find_best_match returns the name stored under that key, whatever the    *)
(* scores of the other keys.                                               *)
C2_ExactPath ==
    (match_pc = "matched" /\ HasKey(choices, NormKey(line_app_name))) =>
        excel_match.ret = PyStr(DictGet(choices, NormKey(line_app_name)))

\* The exact path is taken although an earlier key of the lookup scores 100.
C2_Witness ==
    /\ match_pc = "matched"
    /\ HasKey(choices, NormKey(line_app_name))
    /\ choices[1].key # NormKey(line_app_name)
    /\ Score(NormKey(line_app_name), choices[1].key) = 100
    /\ excel_match.ret = PyStr(DictGet(choices, NormKey(line_app_name)))

(* C3: threshold path: when the normalized name is no key of a non-empty   *)
(* lookup, the result is the name of a key with the maximum score if that  *)
(* maximum is at least 90, and no match if it is 89 or less.                     *)
C3_ThresholdPath ==
    (match_pc = "matched" /\ choices # <<>> /\ ~HasKey(choices, NormKey(line_app_name))) =>
        /\ MaxScore >= 90 =>
              \E i \in DOMAIN choices :
                  /\ Score(NormKey(line_app_name), choices[i].key) = MaxScore
                  /\ excel_match.ret = PyStr(choices[i].value)
        /\ MaxScore <= 89 => excel_match.ret = PyNone

\* A score of exactly 90 is matched.
C3_Witness ==
    /\ match_pc = "matched"
    /\ choices # <<>>
    /\ ~HasKey(choices, NormKey(line_app_name))
    /\ MaxScore = 90
    /\ excel_match.ret = PyStr(N_Tesoreria)

\* A best score of exactly 89 is not matched.
C3_Witness89 ==
    /\ match_pc = "matched"
    /\ choices # <<>>
    /\ ~HasKey(choices, NormKey(line_app_name))
    /\ MaxScore = 89
    /\ excel_match.ret = PyNone

(* C4: for an empty lookup find_best_match returns no match and hands no         *)
(* candidate to the scorer.                                                *)
C4_EmptyLookup ==
    (match_pc = "matched" /\ choices = <<>>) =>
        excel_match.ret = PyNone /\ excel_match.scored = <<>>

C4_Witness ==
    /\ match_pc = "matched"
    /\ choices = <<>>
    /\ line_app_name = Q_Nomina
    /\ excel_match = Found(PyNone, <<>>)

-----------------------------------------------------------------------------
(* Inputs of the evaluator *)

T_Vigente == <<"V","i","g","e","n","t","e">>
T_Legado == <<"L","e","g","a","d","o">>
T_No_Obsoleto == <<"N","o"," ","O","b","s","o","l","e","t","o">>
T_OBSOLETO == <<" ","O","B","S","O","L","E","T","O">>
T_Si == <<"S","i">>
T_no == <<"n","o">>
T_Regional == <<"R","e","g","i","o","n","a","l">>
T_cumple == <<"c","u","m","p","l","e">>
T_PARCIALMENTE == <<"P","A","R","C","I","A","L","M","E","N","T","E">>
T_na == <<"n","/","a">>
T_abc == <<"a","b","c">>
T_blank == <<" ">>

\* Cells of the obsolescencia column; the last is a duplicated column.
ObsCells ==
    { <<PyNone>>, <<PyStr(T_blank)>>, <<PyStr(L_0)>>, <<PyInt(0)>>,
      <<PyStr(T_Vigente)>>, <<PyStr(T_Legado)>>, <<PyStr(T_No_Obsoleto)>>,
      <<PyStr(T_OBSOLETO)>>, <<PyStr(T_OBSOLETO), PyStr(T_No_Obsoleto)>> }

SiNoCells == { <<PyNaN>>, <<PyStr(T_Si)>>, <<PyStr(T_no)>>, <<PyStr(L_0)>> }

ExtCells ==
    { <<PyNone>>, <<PyStr(T_Regional)>>, <<PyStr(T_cumple)>>, <<PyStr(T_PARCIALMENTE)>> }

\* Cells of the seguridad column: numbers as int, as float and as text, and
\* texts that are no number.
SegCells ==
    { <<PyNaN>>, <<PyInt(0)>>, <<PyStr(L_0)>>, <<PyFloat(0, 0)>>,
      <<PyInt(1)>>, <<PyFloat(2, 0)>>, <<PyStr(<<"3">>)>>, <<PyInt(4)>>,
      <<PyStr(<<" ","5",".","0">>)>>, <<PyInt(6)>>, <<PyFloat(2, 5)>>,
      <<PyStr(L_NA)>>, <<PyStr(T_na)>>, <<PyStr(T_abc)>> }

COL_OBS == CRITERIA_DB_MAP.obsolescencia
COL_ESC == CRITERIA_DB_MAP.escalabilidad
COL_ESTAB == CRITERIA_DB_MAP.estabilidad
COL_EXT == CRITERIA_DB_MAP.extensibilidad
COL_SEG == CRITERIA_DB_MAP.seguridad

\* The record with the given cells; the estabilidad column is absent from a
\* record with no cell for it.
MakeRow(obs, esc, estab, ext, seg) ==
    (COL_OBS :> obs) @@ (COL_ESC :> esc) @@ (COL_EXT :> ext) @@ (COL_SEG :> seg)
    @@ (IF estab = <<PyNaN>> THEN <<>> ELSE (COL_ESTAB :> estab))

Rows ==
    { MakeRow(obs, esc, estab, ext, seg) :
        obs \in ObsCells, esc \in SiNoCells \ {<<PyStr(L_0)>>},
        estab \in SiNoCells, ext \in ExtCells, seg \in SegCells }

\* A mapping with no entry for acople and cobertura, and one with no entry.
MapWithoutFixed ==
    [k \in (DOMAIN CRITERIA_DB_MAP) \ {"acople", "cobertura"} |-> CRITERIA_DB_MAP[k]]
CriteriaMaps == {CRITERIA_DB_MAP, MapWithoutFixed, <<>>}

-----------------------------------------------------------------------------
(* The evaluator specification: evaluate the record of one application. *)

InitEval ==
    /\ OtherIdle
    /\ NormIdle
    /\ MatchIdle
    /\ eval_pc = "row"
    /\ eval_row \in Rows
    /\ bank_name_eval \in {"BuyerBank", "BoughtBank"}
    /\ eval_map \in CriteriaMaps
    /\ resultados_evaluacion = <<>>

\* resultados_evaluacion = evaluar_criterios(row, bank_name_eval, criteria_map)
EvaluarCriterios ==
    /\ eval_pc = "row"
    /\ resultados_evaluacion' = evaluar_criterios(eval_row, bank_name_eval, eval_map)
    /\ eval_pc' = "done"
    /\ UNCHANGED <<eval_row, bank_name_eval, eval_map, normVars, matchVars, drvVars, repVars, ordVars, toolVars>>

NextEval == EvaluarCriterios

SpecEval == InitEval /\ [][NextEval]_vars

\* The text the evaluator reads for a criterion: None, or the stripped text
\* of the first cell of the mapped column.
Field(criterion) == get_value_from_row(eval_row, MapGet(eval_map, criterion))
NoData(v) == v = PyNone \/ v = PyStr(<<>>) \/ v = PyStr(L_0)

CriteriaNames ==
    {"obsolescencia", "escalabilidad", "acople", "estabilidad", "extensibilidad",
     "seguridad", "cobertura", "ux", "agilidad"}
Verdicts == {"Cumple", "No Cumple", "Parcialmente", "N/A", ""}

(* C6: evaluar_criterios returns a mapping whose keys are exactly the 9     *)
(* criterion names and whose values are Cumple, No Cumple, Parcialmente,    *)
(* N/A or empty.                                                            *)
C6_NineVerdicts ==
    eval_pc = "done" =>
        /\ DOMAIN resultados_evaluacion = CriteriaNames
        /\ \A k \in DOMAIN resultados_evaluacion : resultados_evaluacion[k] \in Verdicts

(* C7: the acople verdict is "Parcialmente" for every record and every      *)
(* column mapping, also one with no entry for acople.                       *)
C7_AcopleParcialmente ==
    eval_pc = "done" => resultados_evaluacion.acople = "Parcialmente"

C7_Witness ==
    /\ eval_pc = "done"
    /\ "acople" \notin DOMAIN eval_map
    /\ "seguridad" \in DOMAIN eval_map
    /\ resultados_evaluacion.acople = "Parcialmente"

\* The word of the claimed BuyerBank rule; the code holds no such literal.
L_vigente == <<"v","i","g","e","n","t","e">>

\* The verdict for a value by the "obsoleto" wording.
ObsoletoRule(v) ==
    IF Contains(str_lower(v.s), L_no_obsoleto) THEN "Cumple"
    ELSE IF Contains(str_lower(v.s), L_obsoleto) THEN "No Cumple"
    ELSE ""

(* C8 as claimed: obsolescencia is empty for no data; for BuyerBank it is   *)
(* Cumple when the value contains "vigente" and No Cumple otherwise; for    *)
(* BoughtBank it is Cumple for "no obsoleto", No Cumple for "obsoleto"      *)
(* without "no obsoleto", and empty otherwise.                              *)
C8_PerBankRule ==
    eval_pc = "done" =>
        LET v == Field("obsolescencia")
        IN resultados_evaluacion.obsolescencia =
              IF NoData(v) THEN ""
              ELSE IF bank_name_eval = "BuyerBank"
              THEN (IF Contains(str_lower(v.s), L_vigente) THEN "Cumple" ELSE "No Cumple")
              ELSE ObsoletoRule(v)

(* C8, amended: obsolescencia is empty for no data; for both organizations  *)
(* it is Cumple when the value contains "no obsoleto", No Cumple when it    *)
(* contains "obsoleto" without "no obsoleto", and empty otherwise (so       *)
(* "Vigente" and "Legado" give empty).                                      *)
C8_ObsoletoRuleBothBanks ==
    eval_pc = "done" =>
        LET v == Field("obsolescencia")
        IN resultados_evaluacion.obsolescencia =
              IF NoData(v) THEN "" ELSE ObsoletoRule(v)

\* BuyerBank, "No Obsoleto": Cumple.
C8_Witness ==
    /\ eval_pc = "done"
    /\ bank_name_eval = "BuyerBank"
    /\ Field("obsolescencia") = PyStr(T_No_Obsoleto)
    /\ resultados_evaluacion.obsolescencia = "Cumple"

(* C9 as claimed: an obsolescencia verdict of No Cumple forces the          *)
(* extensibilidad verdict to No Cumple.                                     *)
C9_ObsolescenciaForcesExtensibilidad ==
    (eval_pc = "done" /\ resultados_evaluacion.obsolescencia = "No Cumple") =>
        resultados_evaluacion.extensibilidad = "No Cumple"

(* C9, amended: the extensibilidad verdict does not depend on the           *)
(* obsolescencia verdict: also when obsolescencia is No Cumple it is Cumple *)
(* for a field that title-cases to "Cumple", Parcialmente for               *)
(* "Parcialmente" and empty otherwise, never No Cumple.                     *)
C9_ExtensibilidadOwnField ==
    (eval_pc = "done" /\ resultados_evaluacion.obsolescencia = "No Cumple") =>
        LET v == Field("extensibilidad")
        IN resultados_evaluacion.extensibilidad =
              IF v # PyNone /\ str_title(v.s) = L_Cumple THEN "Cumple"
              ELSE IF v # PyNone /\ str_title(v.s) = L_Parcialmente THEN "Parcialmente"
              ELSE ""

C9_Witness ==
    /\ eval_pc = "done"
    /\ resultados_evaluacion.obsolescencia = "No Cumple"
    /\ Field("extensibilidad") = PyStr(T_cumple)
    /\ resultados_evaluacion.extensibilidad = "Cumple"

\* The number a seguridad text stands for is n.
SegIs(v, n) == FloatIs(py_float(v.s), n)

C10_WitnessThree ==
    /\ eval_pc = "done"
    /\ Field("seguridad") = PyStr(<<"3">>)
    /\ resultados_evaluacion.seguridad = "Parcialmente"

-----------------------------------------------------------------------------
(* C1: normalize_string is idempotent: normalizing a key again gives the   *)
(* same key.                                                               *)
C1_Idempotent ==
    norm_pc = "twice" => norm_out2.val = norm_out.val

(* C5: normalize_string never raises, and returns the empty key for every  *)
(* input that is not a string.                                             *)
C5_Total ==
    norm_pc # "start" =>
        /\ norm_out.exc = "none"
        /\ norm_in.type # "str" => norm_out.val = <<>>

C5_Witness ==
    /\ norm_pc = "once"
    /\ norm_in = PyNaN
    /\ norm_out = Ret(<<>>)

-----------------------------------------------------------------------------
(* generate_slide_for_subdomain: the frames and lookups it is handed *)

\* Number of input lines of a domain folder.
MaxLines == 2

\* The application column of the frames of load_data_from_db, and of the
\* frames of load_master_excels.
APP_COLUMN_NAME == "aplicacion_sistema"
APP_COLUMN_NAME_EXCEL == "aplicacion sistema"

TABLE_BUYER_BANK == "aplicaciones_buyer_bank"
TABLE_BOUGHT_BANK == "aplicaciones_bought_bank"

\* A record of a frame: the name under the application column col, and the
\* cells of the criteria columns.
FrameRow(col, name, cells) == (col :> <<PyStr(name)>>) @@ cells

Frame(col, rows) == [columns |-> {col} \cup DOMAIN rows[1], rows |-> rows]

\* df_buyer and df_bought, with col as the application column.
BuyerFrame(col) ==
    Frame(col,
      << FrameRow(col, N_PagosWeb,
            MakeRow(<<PyStr(T_No_Obsoleto)>>, <<PyStr(T_Si)>>, <<PyStr(T_no)>>,
                    <<PyStr(T_cumple)>>, <<PyInt(4)>>)),
         FrameRow(col, N_Tesoreria,
            MakeRow(<<PyStr(T_OBSOLETO)>>, <<PyStr(T_no)>>, <<PyStr(T_Si)>>,
                    <<PyNone>>, <<PyInt(1)>>)) >>)

BoughtFrame(col) ==
    Frame(col,
      << FrameRow(col, N_SAP_FI,
            MakeRow(<<PyNone>>, <<PyStr(T_Si)>>, <<PyStr(T_Si)>>,
                    <<PyStr(T_PARCIALMENTE)>>, <<PyStr(<<"3">>)>>)),
         FrameRow(col, N_PagosWeb,
            MakeRow(<<PyStr(T_Legado)>>, <<PyStr(T_no)>>, <<PyStr(L_0)>>,
                    <<PyStr(T_Regional)>>, <<PyInt(6)>>)) >>)

\* df[col].dropna().unique(): the names of the frame, in row order.
FrameNames(df, col) == [i \in DOMAIN df.rows |-> df.rows[i][col][1].s]

\* {normalize_string(name): name for name in df[col].dropna().unique()}
ChoicesOf(df, col) == BuildChoices(FrameNames(df, col), <<>>)

\* target_df[target_df[APP_COLUMN_NAME] == excel_match_name], then
\* row_df.iloc[0] if not row_df.empty else None.  A frame without the column
\* APP_COLUMN_NAME raises KeyError.
RowOf(target_df, excel_match_name) ==
    IF APP_COLUMN_NAME \notin target_df.columns THEN Raise("KeyError")
    ELSE LET row_df == SelectSeq(target_df.rows,
                         LAMBDA r : r[APP_COLUMN_NAME][1] = PyStr(excel_match_name))
         IN Ret(IF row_df = <<>> THEN PyNone ELSE row_df[1])

-----------------------------------------------------------------------------
(* generate_slide_for_subdomain: the input lines and their order *)

L_BUYERBANK == <<"B","U","Y","E","R","B","A","N","K">>
L_BOUGHTBANK == <<"B","O","U","G","H","T","B","A","N","K">>

B_BuyerBank == <<"B","u","y","e","r","B","a","n","k">>
B_boughtbank == <<"b","o","u","g","h","t","b","a","n","k">>
B_BoughtBank_TSA == <<"B","o","u","g","h","t","B","a","n","k"," ","T","S","A">>
B_OtroBanco == <<"O","t","r","o","B","a","n","c","o">>

\* An element of app_lines_data: ((country, bank, app_name), original_line).
AppLine(country, bank, app_name, original_line) ==
    [data |-> <<country, bank, app_name>>, original_line |-> original_line]

\* Lines of the .txt files: a name that is a key of its lookup, one that
\* matches by score, one that matches nothing, a tag of no source, tags in
\* other case, a name both sources hold, two countries.
InputLines ==
    { AppLine("Costa Rica (CR)", B_BuyerBank, N_PagosWeb, "CR;BuyerBank;Pagos Web"),
      AppLine("Colombia (CO)", B_BuyerBank, Q_Nomina, "CO;BuyerBank;Nomina"),
      AppLine("Colombia (CO)", B_BuyerBank, Q_Tesoreriaxy, "CO;BuyerBank;Tesoreriaxy"),
      AppLine("Colombia (CO)", B_boughtbank, Q_SAP_FI, "CO;boughtbank;SAP FI"),
      AppLine("Peru (PE)", B_BoughtBank_TSA, N_PagosWeb, "PE;BoughtBank TSA;Pagos Web"),
      AppLine("Colombia (CO)", B_OtroBanco, N_PagosWeb, "CO;OtroBanco;Pagos Web") }

\* COUNTRY_SORT_ORDER.get(country, 99); the accented letter of the second
\* country is written without its accent.
COUNTRY_SORT_ORDER(country) ==
    CASE country = "Colombia (CO)" -> 1
      [] country = "Panama (PA)" -> 2
      [] country = "Costa Rica (CR)" -> 3
      [] country = "Honduras (HN)" -> 4
      [] country = "El Salvador (SV)" -> 5
      [] country = "EEUU - Miami (US)" -> 6
      [] OTHER -> 99

\* BANK_SORT_ORDER.get(bank_sort_name, 99)
BANK_SORT_ORDER(bank_sort_name) ==
    CASE bank_sort_name = "BuyerBank" -> 1
      [] bank_sort_name = "BoughtBank" -> 2
      [] OTHER -> 99

\* _get_sort_key(line_tuple)
get_sort_key(line_tuple) ==
    LET country == line_tuple.data[1]
        bank == line_tuple.data[2]
        app_name == line_tuple.data[3]
        bank_sort_name ==
            IF Contains(str_upper(bank), L_BUYERBANK) THEN "BuyerBank" ELSE "BoughtBank"
    IN <<COUNTRY_SORT_ORDER(country), BANK_SORT_ORDER(bank_sort_name), str_lower(app_name)>>

\* k1 < k2 for two sort keys
KeyLess(k1, k2) ==
    \/ k1[1] < k2[1]
    \/ k1[1] = k2[1] /\ k1[2] < k2[2]
    \/ k1[1] = k2[1] /\ k1[2] = k2[2] /\ StrLess(k1[3], k2[3])

RECURSIVE InsertByKey(_, _)
\* x put in front of the first element of the sorted s that is not less than x
InsertByKey(x, s) ==
    IF s = <<>> THEN <<x>>
    ELSE IF KeyLess(get_sort_key(Head(s)), get_sort_key(x))
         THEN <<Head(s)>> \o InsertByKey(x, Tail(s))
         ELSE <<x>> \o s

RECURSIVE SortedByKey(_)
\* sorted(app_lines_data, key=_get_sort_key): stable
SortedByKey(app_lines_data) ==
    IF app_lines_data = <<>> THEN <<>>
    ELSE InsertByKey(Head(app_lines_data), SortedByKey(Tail(app_lines_data)))

-----------------------------------------------------------------------------
(* generate_slide_for_subdomain: the steps of the loop over the lines *)

\* bank_name_eval taking every tag without "BUYERBANK" for the second source.
bank_name_of_default(bank) ==
    LET bank_upper == str_upper(bank)
    IN IF Contains(bank_upper, L_BUYERBANK) THEN "BuyerBank" ELSE "BoughtBank"

\* bank_name_eval of a line, "none" for a tag of no source (lines 477-491).
bank_name_of(bank) ==
    LET bank_upper == str_upper(bank)
    IN IF Contains(bank_upper, L_BUYERBANK) THEN "BuyerBank"
       ELSE IF Contains(bank_upper, L_BOUGHTBANK) THEN "BoughtBank"
       ELSE "none"

\* table_to_update naming one table for both sources.
table_to_update_one_table(bank_name) == TABLE_BUYER_BANK

\* table_to_update of the two sources
table_to_update(bank_name) ==
    IF bank_name = "BuyerBank" THEN TABLE_BUYER_BANK ELSE TABLE_BOUGHT_BANK

\* target_df of the two sources
target_df(bank_name, col) ==
    IF bank_name = "BuyerBank" THEN BuyerFrame(col) ELSE BoughtFrame(col)

\* The pending entry being the application name of the line.
pending_entry_name(line) == line.data[3]

\* What pending_lines.append(original_line) appends for a line.
pending_entry(line) == line.original_line

\* The except of line 513 ending the pass of a line whose UPDATE failed.
after_update_fatal(committed) == IF committed THEN "retrieve" ELSE "line"

\* Where the loop is after the try of lines 501-514: the except branch only
\* prints, so the retrieval of line 517 is next whether or not the UPDATE was
\* committed.
after_update(committed) == "retrieve"

\* The outcome of conn.execute and conn.commit inside the try of line 501.
WriteOf(committed) == IF committed THEN "committed" ELSE "failed"

\* What the loop did for a line.
Outcome(kind, name, write, resultados) ==
    [file |-> file_i, pos |-> line_i, line |-> sorted_app_lines_data[line_i],
     kind |-> kind, name |-> name, write |-> write, resultados |-> resultados]

-----------------------------------------------------------------------------
(* The driver specification: the file loop calls generate_slide_for_subdomain *)
(* for each .txt file, with the arguments its signature names.  The frames  *)
(* and lookups are those of load_data_from_db (application column           *)
(* "aplicacion_sistema") or those of load_master_excels ("aplicacion        *)
(* sistema").                                                               *)

LineSeqs == UNION {[1..n -> InputLines] : n \in 0..MaxLines}

\* The lines of a folder, in two files.
FileSplits ==
    UNION { { <<SubSeq(ls, 1, k), SubSeq(ls, k + 1, Len(ls))>> : k \in 0..Len(ls) } :
            ls \in LineSeqs }

InitDriver ==
    /\ NormIdle
    /\ MatchIdle
    /\ EvalIdle
    /\ RepIdle
    /\ OrdIdle
    /\ ToolIdle
    /\ drv_pc = "files"
    /\ app_column \in {APP_COLUMN_NAME, APP_COLUMN_NAME_EXCEL}
    /\ choices_buyer = ChoicesOf(BuyerFrame(app_column), app_column)
    /\ choices_bought = ChoicesOf(BoughtFrame(app_column), app_column)
    /\ txt_files \in FileSplits
    /\ file_i = 1
    /\ sorted_app_lines_data = <<>>
    /\ line_i = 1
    /\ drv_bank = "none"
    /\ drv_match = PyNone
    /\ drv_write = "none"
    /\ drv_row = PyNone
    /\ pending_lines = <<>>
    /\ slide_log = <<>>
    /\ db_si = {}
    /\ returned = <<>>
    /\ fatal = <<>>
    /\ pendientes_file = <<>>

\* The variables no step of the driver changes.
DrvFixed == <<app_column, choices_buyer, choices_bought, txt_files, pendientes_file>>
OtherVars == <<normVars, matchVars, evalVars, repVars, ordVars, toolVars>>

\* generate_slide_for_subdomain(...) is entered: pending_lines = [], the
\* lines are sorted.
CallGenerator ==
    /\ drv_pc = "files"
    /\ file_i <= Len(txt_files)
    /\ sorted_app_lines_data' = SortedByKey(txt_files[file_i])
    /\ pending_lines' = <<>>
    /\ line_i' = 1
    /\ drv_pc' = "line"
    /\ UNCHANGED <<file_i, drv_bank, drv_match, drv_write, drv_row, slide_log, db_si,
                   returned, fatal, DrvFixed, OtherVars>>

\* Lines 476-486: the tag names a source.
ClassifyLine ==
    /\ drv_pc = "line"
    /\ line_i <= Len(sorted_app_lines_data)
    /\ bank_name_of(sorted_app_lines_data[line_i].data[2]) # "none"
    /\ drv_bank' = bank_name_of(sorted_app_lines_data[line_i].data[2])
    /\ drv_pc' = "match"
    /\ UNCHANGED <<file_i, sorted_app_lines_data, line_i, drv_match, drv_write, drv_row,
                   pending_lines, slide_log, db_si, returned, fatal, DrvFixed, OtherVars>>

\* Lines 487-491: the tag names no source; continue.
SkipLine ==
    /\ drv_pc = "line"
    /\ line_i <= Len(sorted_app_lines_data)
    /\ bank_name_of(sorted_app_lines_data[line_i].data[2]) = "none"
    /\ slide_log' = Append(slide_log, Outcome("unrecognized", PyNone, "none", PyNone))
    /\ line_i' = line_i + 1
    /\ UNCHANGED <<drv_pc, file_i, sorted_app_lines_data, drv_bank, drv_match, drv_write,
                   drv_row, pending_lines, db_si, returned, fatal, DrvFixed, OtherVars>>

\* Line 496: excel_match_name = find_best_match(app_name, target_choices)
FindMatch ==
    /\ drv_pc = "match"
    /\ drv_match' = find_best_match(sorted_app_lines_data[line_i].data[3],
                        IF drv_bank = "BuyerBank" THEN choices_buyer ELSE choices_bought).ret
    /\ drv_pc' = "matched"
    /\ UNCHANGED <<file_i, sorted_app_lines_data, line_i, drv_bank, drv_write, drv_row,
                   pending_lines, slide_log, db_si, returned, fatal, DrvFixed, OtherVars>>

\* Lines 524-526 and the rest of the pass for a line with no match: the
\* line is appended to pending_lines, its shape is drawn without verdicts.
PendingLine ==
    /\ drv_pc = "matched"
    /\ Falsy(drv_match)
    /\ pending_lines' = Append(pending_lines, pending_entry(sorted_app_lines_data[line_i]))
    /\ slide_log' = Append(slide_log, Outcome("pending", PyNone, "none", PyNone))
    /\ line_i' = line_i + 1
    /\ drv_pc' = "line"
    /\ UNCHANGED <<file_i, sorted_app_lines_data, drv_bank, drv_match, drv_write, drv_row,
                   db_si, returned, fatal, DrvFixed, OtherVars>>

\* Lines 499-514: the UPDATE of the matched name in table_to_update, committed
\* on its own, or an error that is printed.
UpdateDatabase ==
    /\ drv_pc = "matched"
    /\ ~Falsy(drv_match)
    /\ \E committed \in BOOLEAN :
         /\ db_si' = IF committed
                     THEN db_si \cup {<<table_to_update(drv_bank), drv_match.s>>}
                     ELSE db_si
         /\ drv_write' = WriteOf(committed)
         /\ drv_pc' = after_update(committed)
    /\ UNCHANGED <<file_i, sorted_app_lines_data, line_i, drv_bank, drv_match, drv_row,
                   pending_lines, slide_log, returned, fatal, DrvFixed, OtherVars>>

\* Lines 517-522: the record of the matched name.
RetrieveRow ==
    /\ drv_pc = "retrieve"
    /\ RowOf(target_df(drv_bank, app_column), drv_match.s).exc = "none"
    /\ drv_row' = RowOf(target_df(drv_bank, app_column), drv_match.s).val
    /\ drv_pc' = "evaluate"
    /\ UNCHANGED <<file_i, sorted_app_lines_data, line_i, drv_bank, drv_match, drv_write,
                   pending_lines, slide_log, db_si, returned, fatal, DrvFixed, OtherVars>>

\* Line 518 raises: the error leaves the function and is caught by the except
\* of the file loop (main.py line 202), which goes on with the next file.
RetrievalRaises ==
    /\ drv_pc = "retrieve"
    /\ RowOf(target_df(drv_bank, app_column), drv_match.s).exc # "none"
    /\ slide_log' = Append(slide_log, Outcome("raised", drv_match, drv_write, PyNone))
    /\ fatal' = Append(fatal, file_i)
    /\ file_i' = file_i + 1
    /\ drv_write' = "none"
    /\ drv_pc' = "files"
    /\ UNCHANGED <<sorted_app_lines_data, line_i, drv_bank, drv_match, drv_row,
                   pending_lines, db_si, returned, DrvFixed, OtherVars>>

\* Lines 594-596 and the rest of the pass for a matched line: the verdicts
\* of its record, drawn on its row of the slide.
EvaluateLine ==
    /\ drv_pc = "evaluate"
    /\ slide_log' = Append(slide_log,
                       Outcome("matched", drv_match, drv_write,
                               IF drv_row = PyNone THEN PyNone
                               ELSE evaluar_criterios(drv_row, drv_bank, CRITERIA_DB_MAP)))
    /\ line_i' = line_i + 1
    /\ drv_write' = "none"
    /\ drv_pc' = "line"
    /\ UNCHANGED <<file_i, sorted_app_lines_data, drv_bank, drv_match, drv_row,
                   pending_lines, db_si, returned, fatal, DrvFixed, OtherVars>>

\* Line 718: return pending_lines; the caller (main.py line 192) binds the
\* value to no name.
ReturnPending ==
    /\ drv_pc = "line"
    /\ line_i > Len(sorted_app_lines_data)
    /\ returned' = Append(returned, [file |-> file_i, pending |-> pending_lines])
    /\ file_i' = file_i + 1
    /\ drv_pc' = "files"
    /\ UNCHANGED <<sorted_app_lines_data, line_i, drv_bank, drv_match, drv_write, drv_row,
                   pending_lines, slide_log, db_si, fatal, DrvFixed, OtherVars>>

\* prs.save(output_filename) after the last file
SavePresentation ==
    /\ drv_pc = "files"
    /\ file_i > Len(txt_files)
    /\ drv_pc' = "saved"
    /\ UNCHANGED <<file_i, sorted_app_lines_data, line_i, drv_bank, drv_match, drv_write,
                   drv_row, pending_lines, slide_log, db_si, returned, fatal,
                   DrvFixed, OtherVars>>

NextDriver ==
    \/ CallGenerator
    \/ ClassifyLine
    \/ SkipLine
    \/ FindMatch
    \/ PendingLine
    \/ UpdateDatabase
    \/ RetrieveRow
    \/ RetrievalRaises
    \/ EvaluateLine
    \/ ReturnPending
    \/ SavePresentation

SpecDriver == InitDriver /\ [][NextDriver]_vars

\* The positions inside the loop over the lines.
LoopPcs == {"line", "match", "matched", "retrieve", "evaluate"}

\* The lookup of the source a tag names.
ChoicesFor(bank_name) == IF bank_name = "BuyerBank" THEN choices_buyer ELSE choices_bought

\* The line has a tag of a source and a name with no match in its lookup.
NoMatch(line) ==
    /\ bank_name_of(line.data[2]) # "none"
    /\ Falsy(find_best_match(line.data[3], ChoicesFor(bank_name_of(line.data[2]))).ret)

\* The pending lists of the run: those returned and the one being filled.
PendingLists ==
    {returned[j].pending : j \in DOMAIN returned}
        \cup (IF drv_pc \in LoopPcs THEN {pending_lines} ELSE {})

\* The pending list of the call for a file, while the call runs or after it
\* returned.
PendingOf(f) ==
    IF drv_pc \in LoopPcs /\ file_i = f THEN pending_lines
    ELSE IF \E j \in DOMAIN returned : returned[j].file = f
    THEN returned[CHOOSE j \in DOMAIN returned : returned[j].file = f].pending
    ELSE <<>>

\* The call for file f was left by an error.
IsFatal(f) == \E j \in DOMAIN fatal : fatal[j] = f

\* The loop went on after the k-th logged line: the line after it in the
\* sorted batch is the next one logged, or the one the loop is at.
GoesOn(k) ==
    LET e == slide_log[k]
    IN e.pos < Len(SortedByKey(txt_files[e.file])) =>
         IF k < Len(slide_log)
         THEN slide_log[k + 1].file = e.file /\ slide_log[k + 1].pos = e.pos + 1
         ELSE drv_pc \in LoopPcs /\ file_i = e.file /\ line_i = e.pos + 1

(* C11: a line whose name has no match in the lookup of its source is      *)
(* appended verbatim to the pending list of the call, gets no verdict and  *)
(* no database mark, and the loop goes on with the line after it.          *)
C11_NoMatchIsPending ==
    \A k \in DOMAIN slide_log :
        LET e == slide_log[k]
        IN NoMatch(e.line) =>
             /\ e.kind = "pending"
             /\ e.resultados = PyNone
             /\ e.write = "none"
             /\ ~IsFatal(e.file) =>
                  \E j \in DOMAIN PendingOf(e.file) :
                      PendingOf(e.file)[j] = e.line.original_line
             /\ GoesOn(k)

\* An unmatched line was made pending and the line after it was matched and
\* evaluated.
C11_Witness ==
    /\ Len(slide_log) = 2
    /\ slide_log[1].file = slide_log[2].file
    /\ slide_log[1].line.data[3] = Q_Nomina
    /\ slide_log[1].kind = "pending"
    /\ pending_lines = <<"CO;BuyerBank;Nomina">>
    /\ db_si = {<<TABLE_BUYER_BANK, N_Tesoreria>>}
    /\ slide_log[2].kind = "matched"
    /\ slide_log[2].resultados # PyNone

L_buyerbank == <<"b","u","y","e","r","b","a","n","k">>
L_boughtbank == <<"b","o","u","g","h","t","b","a","n","k">>

\* The tag holds the name of neither source, in any case.
NoSourceTag(bank) ==
    /\ ~Contains(str_lower(bank), L_buyerbank)
    /\ ~Contains(str_lower(bank), L_boughtbank)

(* C12: a line whose tag contains neither "buyerbank" nor "boughtbank", in *)
(* any case, is skipped: no match is looked up, no verdict computed, no    *)
(* record marked, nothing added to a pending list; the loop goes on with   *)
(* the line after it.  A line with such a tag is not skipped.              *)
C12_UnrecognizedSkipped ==
    /\ \A k \in DOMAIN slide_log :
        LET e == slide_log[k]
        IN /\ NoSourceTag(e.line.data[2]) <=> e.kind = "unrecognized"
           /\ NoSourceTag(e.line.data[2]) =>
                /\ e.name = PyNone
                /\ e.resultados = PyNone
                /\ e.write = "none"
                /\ \A pl \in PendingLists : \A j \in DOMAIN pl :
                       pl[j] # e.line.original_line
                /\ GoesOn(k)
    /\ drv_pc \in {"match", "matched", "retrieve", "evaluate"} =>
           ~NoSourceTag(sorted_app_lines_data[line_i].data[2])

\* A line with the tag "OtroBanco" was skipped, nothing was marked or made
\* pending, and the line after it was matched.
C12_Witness ==
    /\ Len(slide_log) = 2
    /\ slide_log[1].file = slide_log[2].file
    /\ slide_log[1].line.data[2] = B_OtroBanco
    /\ slide_log[1].kind = "unrecognized"
    /\ slide_log[2].kind = "matched"
    /\ slide_log[2].line.data[2] = B_BoughtBank_TSA
    /\ pending_lines = <<>>
    /\ db_si = {<<TABLE_BOUGHT_BANK, N_PagosWeb>>}

\* The line at position pos of the sorted batch of file f was reached.
Reached(f, pos) ==
    \E k \in DOMAIN slide_log : slide_log[k].file = f /\ slide_log[k].pos = pos

MatchName(line) ==
    find_best_match(line.data[3], ChoicesFor(bank_name_of(line.data[2]))).ret

\* What the loop logs for a matched line, whatever the outcome of its UPDATE.
ExpectedKind(line) ==
    IF RowOf(target_df(bank_name_of(line.data[2]), app_column), MatchName(line).s).exc = "none"
    THEN "matched" ELSE "raised"

ExpectedVerdicts(line) ==
    LET got == RowOf(target_df(bank_name_of(line.data[2]), app_column), MatchName(line).s)
    IN IF got.exc # "none" \/ got.val = PyNone THEN PyNone
       ELSE evaluar_criterios(got.val, bank_name_of(line.data[2]), CRITERIA_DB_MAP)

(* C14: a failed UPDATE is swallowed: the loop goes on to the retrieval of *)
(* the record, the line is not made pending, and what is retrieved and the *)
(* verdicts computed are those of a line whose UPDATE was committed.       *)
C14_UpdateFailureSwallowed ==
    /\ drv_write = "failed" => drv_pc \in {"retrieve", "evaluate"}
    /\ \A k \in DOMAIN slide_log :
        LET e == slide_log[k]
        IN e.write \in {"failed", "committed"} =>
             /\ e.kind = ExpectedKind(e.line)
             /\ e.name = MatchName(e.line)
             /\ e.resultados = ExpectedVerdicts(e.line)
             /\ \A pl \in PendingLists : \A j \in DOMAIN pl :
                    pl[j] # e.line.original_line

\* The UPDATE of "Pagos Web" failed; the record was retrieved and evaluated,
\* nothing is pending and nothing is marked.
C14_Witness ==
    /\ Len(slide_log) = 1
    /\ slide_log[1].write = "failed"
    /\ slide_log[1].kind = "matched"
    /\ slide_log[1].name = PyStr(N_PagosWeb)
    /\ slide_log[1].resultados.seguridad = "Cumple"
    /\ slide_log[1].resultados.obsolescencia = "Cumple"
    /\ pending_lines = <<>>
    /\ db_si = {}

(* C15 as claimed: every pending entry created during reconciliation is    *)
(* persisted to outputs/pendientes/pendientes.txt: once the run is over,   *)
(* each line made pending is a line of that file.                          *)
C15_PendingPersisted ==
    drv_pc = "saved" =>
        \A k \in DOMAIN slide_log :
            slide_log[k].kind = "pending" =>
                \E j \in DOMAIN pendientes_file :
                    pendientes_file[j] = slide_log[k].line.original_line

\* The table of the source a tag names.
SourceTable(bank) ==
    IF Contains(str_lower(bank), L_buyerbank)
    THEN "aplicaciones_buyer_bank" ELSE "aplicaciones_bought_bank"

\* The marks of the lines whose UPDATE was committed: those logged, and the
\* line the loop is at.
CommittedMarks ==
    { <<SourceTable(slide_log[k].line.data[2]), MatchName(slide_log[k].line).s>> :
        k \in {j \in DOMAIN slide_log : slide_log[j].write = "committed"} }
    \cup (IF drv_pc \in {"retrieve", "evaluate"} /\ drv_write = "committed"
          THEN { <<SourceTable(sorted_app_lines_data[line_i].data[2]),
                   MatchName(sorted_app_lines_data[line_i]).s>> }
          ELSE {})

(* C16: at every point of the batch the records marked 'Si' by the run are *)
(* exactly the names matched by the lines processed so far whose UPDATE    *)
(* was committed, each in the table of the source of its line; the mark of *)
(* a line is in place before the next line is looked at.                   *)
C16_MarksAreCommittedMatches == db_si = CommittedMarks

\* Mid-batch: the first line marked a record of the second source, the
\* second line has just marked one of the first source and is not finished.
C16_Witness ==
    /\ drv_pc = "retrieve"
    /\ Len(slide_log) = 1
    /\ slide_log[1].write = "committed"
    /\ drv_write = "committed"
    /\ db_si = {<<TABLE_BOUGHT_BANK, N_SAP_FI>>, <<TABLE_BUYER_BANK, N_PagosWeb>>}

\* A failed UPDATE leaves no mark, an unmatched line neither.
C16_WitnessFailed ==
    /\ drv_pc = "line"
    /\ Len(slide_log) = 2
    /\ slide_log[1].kind = "pending"
    /\ slide_log[2].write = "failed"
    /\ db_si = {}

-----------------------------------------------------------------------------
(* Lookup construction and the names it was built from (SpecMatch) *)

\* The input name is one of the names the lookup was built from.
IsSourceName == \E i \in DOMAIN src_names : src_names[i] = line_app_name

\* The last name of the source, in row order, with the normalized key of the
\* input name.
LastOfKey ==
    LET same == {i \in DOMAIN src_names : NormKey(src_names[i]) = NormKey(line_app_name)}
    IN src_names[CHOOSE i \in same : \A j \in same : j <= i]

(* C17 as claimed: for every name n of the source, find_best_match(n,      *)
(* lookup) returns n.                                                      *)
C17_IdentityOnSourceNames ==
    (match_pc = "matched" /\ IsSourceName) => excel_match.ret = PyStr(line_app_name)

(* C17 amended: for every name n of the source, find_best_match(n, lookup) *)
(* returns the last name of the source with the normalized key of n, which *)
(* is n itself exactly when no later name of the source has that key.      *)
C17_LastNameOfKey ==
    (match_pc = "matched" /\ IsSourceName) =>
        /\ excel_match.ret = PyStr(LastOfKey)
        /\ excel_match.ret = PyStr(line_app_name) <=>
             ~\E i, j \in DOMAIN src_names :
                 /\ src_names[i] = line_app_name
                 /\ i < j
                 /\ NormKey(src_names[j]) = NormKey(line_app_name)

\* A name of a source of three names with three keys is returned as it is.
C17_Witness ==
    /\ match_pc = "matched"
    /\ src_names = <<N_PagosWeb, N_Pagos, N_Tesoreria>>
    /\ line_app_name = N_Pagos
    /\ excel_match.ret = PyStr(N_Pagos)

\* "Pagos" and "Pagos (TSA)" share the key "pagos": the later one is returned.
C17_WitnessCollision ==
    /\ match_pc = "matched"
    /\ src_names = <<N_Pagos, N_Pagos_TSA>>
    /\ line_app_name = N_Pagos
    /\ excel_match.ret = PyStr(N_Pagos_TSA)

-----------------------------------------------------------------------------
(* generar_reporte: the frames it loads and the lines it reads *)

\* Number of lines of the file the report reads.
MaxReportLines == 3

FLAG_COLUMN == "mostrar_en_arquitectura_target"

T_No == <<"N","o">>
N_Nomina == <<"N","o","m","i","n","a">>
N_Cartera == <<"C","a","r","t","e","r","a">>
Q_Zeta == <<"Z","e","t","a">>

\* A record of a frame the report loads: name, mark and criteria cells.
ReportRow(name, flag, cells) ==
    FrameRow(APP_COLUMN_NAME, name, cells) @@ (FLAG_COLUMN :> <<flag>>)

\* df_buyer as the report loads it: four marked records whose seguridad
\* verdicts are Cumple, No Cumple, Parcialmente and N/A, one record marked
\* "No" and one marked "SI".
ReportBuyerFrame ==
    Frame(APP_COLUMN_NAME,
      << ReportRow(N_PagosWeb, PyStr(T_Si),
            MakeRow(<<PyStr(T_No_Obsoleto)>>, <<PyStr(T_Si)>>, <<PyStr(T_no)>>,
                    <<PyStr(T_cumple)>>, <<PyInt(4)>>)),
         ReportRow(N_Tesoreria, PyStr(T_Si),
            MakeRow(<<PyStr(T_OBSOLETO)>>, <<PyStr(T_no)>>, <<PyStr(T_Si)>>,
                    <<PyNone>>, <<PyInt(1)>>)),
         ReportRow(N_Pagos, PyStr(T_Si),
            MakeRow(<<PyNone>>, <<PyStr(T_Si)>>, <<PyStr(T_no)>>,
                    <<PyStr(T_PARCIALMENTE)>>, <<PyStr(<<"3">>)>>)),
         ReportRow(N_SAP_FI, PyStr(T_Si),
            MakeRow(<<PyStr(T_Legado)>>, <<PyNaN>>, <<PyStr(L_0)>>,
                    <<PyStr(T_Regional)>>, <<PyInt(6)>>)),
         ReportRow(N_Nomina, PyStr(T_No),
            MakeRow(<<PyStr(T_No_Obsoleto)>>, <<PyStr(T_Si)>>, <<PyStr(T_no)>>,
                    <<PyStr(T_cumple)>>, <<PyInt(5)>>)),
         ReportRow(N_Cartera, PyStr(L_SI),
            MakeRow(<<PyStr(T_No_Obsoleto)>>, <<PyStr(T_Si)>>, <<PyStr(T_no)>>,
                    <<PyStr(T_cumple)>>, <<PyInt(5)>>)) >>)

\* df_bought as the report loads it: a marked record with no seguridad
\* value, and a record with no mark.
ReportBoughtFrame ==
    Frame(APP_COLUMN_NAME,
      << ReportRow(N_PagosWeb, PyStr(T_Si),
            MakeRow(<<PyStr(T_OBSOLETO)>>, <<PyStr(T_no)>>, <<PyStr(T_Si)>>,
                    <<PyStr(T_cumple)>>, <<PyNaN>>)),
         ReportRow(N_Tesoreria, PyNone,
            MakeRow(<<PyStr(T_No_Obsoleto)>>, <<PyStr(T_Si)>>, <<PyStr(T_no)>>,
                    <<PyStr(T_cumple)>>, <<PyInt(4)>>)) >>)

report_df(bank_name) ==
    IF bank_name = "BuyerBank" THEN ReportBuyerFrame ELSE ReportBoughtFrame

P_Colombia == <<"C","o","l","o","m","b","i","a"," ","(","C","O",")">>
P_Panama == <<"P","a","n","a","m","a"," ","(","P","A",")">>
P_CostaRica == <<"C","o","s","t","a"," ","R","i","c","a"," ","(","C","R",")">>
P_Honduras == <<"H","o","n","d","u","r","a","s"," ","(","H","N",")">>
P_ElSalvador == <<"E","l"," ","S","a","l","v","a","d","o","r"," ","(","S","V",")">>
P_Miami == <<"E","E","U","U"," ","-"," ","M","i","a","m","i"," ","(","U","S",")">>
P_Peru == <<"P","e","r","u"," ","(","P","E",")">>

\* The keys of COUNTRY_ICONS; the accent of the key of Panama is left out.
COUNTRY_ICONS ==
    {P_Colombia, P_Panama, P_CostaRica, P_Honduras, P_ElSalvador, P_Miami}

\* get_region(country_str)
get_region(country_str) ==
    IF Contains(country_str, P_Colombia) THEN "Colombia"
    ELSE IF country_str \in COUNTRY_ICONS THEN "CAM"
    ELSE "Otro"

\* parts = re.findall(r'"(.*?)"', line): the quoted fields of a line
ReportLines ==
    { <<P_Colombia, B_BuyerBank, N_PagosWeb>>,
      <<P_Peru, B_BuyerBank, N_Tesoreria>>,
      <<P_Colombia, B_BuyerBank, N_Pagos>>,
      <<P_Colombia, B_BuyerBank, Q_SAP_FI>>,
      <<P_Colombia, B_BuyerBank, N_Nomina>>,
      <<P_Colombia, B_BuyerBank, N_Cartera>>,
      <<P_Colombia, B_BuyerBank, Q_Zeta>>,
      <<P_Colombia, B_boughtbank, N_PagosWeb>>,
      <<P_CostaRica, B_BoughtBank_TSA, N_Tesoreria>>,
      <<P_CostaRica, B_BuyerBank, N_PagosWeb>>,
      <<P_Colombia, B_OtroBanco, N_PagosWeb>>,
      <<P_Colombia, N_PagosWeb>> }

ReportLineSeqs == UNION {[1..n -> ReportLines] : n \in 0..MaxReportLines}

\* domain_key and subdomain_cleaned of the file the lines are read from
REPORT_DOMINIO == "canales"
REPORT_SUBDOMINIO == "canales_web_retail"

\* The mark test reading any spelling of "si".
is_target_any_case(row) == str_upper(py_str(row[FLAG_COLUMN][1])) = L_SI

\* row.get("mostrar_en_arquitectura_target") == "Si"
is_target(row) == row[FLAG_COLUMN][1] = PyStr(T_Si)

-----------------------------------------------------------------------------
(* generar_reporte: the percentages of a group *)

CRITERIA_LIST ==
    <<"obsolescencia", "escalabilidad", "acople", "estabilidad", "extensibilidad",
      "seguridad">>

\* COMPLIANCE_MAP scoring "N/A" as 0.0.
COMPLIANCE_MAP_na_zero(compliance_text) ==
    CASE compliance_text = "Cumple" -> PyInt(2)
      [] compliance_text = "Parcialmente" -> PyInt(1)
      [] compliance_text = "No Cumple" -> PyInt(0)
      [] compliance_text = "N/A" -> PyInt(0)
      [] OTHER -> PyNone

\* COMPLIANCE_MAP.get(compliance_text), the score counted in halves: 2 for
\* 1.0, 1 for 0.5, 0 for 0.0, None for "N/A", "" and a text that is no key.
COMPLIANCE_MAP(compliance_text) ==
    CASE compliance_text = "Cumple" -> PyInt(2)
      [] compliance_text = "Parcialmente" -> PyInt(1)
      [] compliance_text = "No Cumple" -> PyInt(0)
      [] OTHER -> PyNone

RECURSIVE Tally(_, _, _)
\* The loop of lines 269-275 over the rows of a group: scores_sum (in
\* halves) and apps_evaluadas.
Tally(group_df, criterion, acc) ==
    IF group_df = <<>> THEN acc
    ELSE LET score == COMPLIANCE_MAP(Head(group_df)[criterion])
         IN Tally(Tail(group_df), criterion,
                  IF score # PyNone
                  THEN [scores_sum |-> acc.scores_sum + score.n,
                        apps_evaluadas |-> acc.apps_evaluadas + 1]
                  ELSE acc)

\* (scores_sum / apps_evaluadas) * 100 if apps_evaluadas > 0 else None, as
\* the fraction num / den.
percentage(group_df, criterion) ==
    LET t == Tally(group_df, criterion, [scores_sum |-> 0, apps_evaluadas |-> 0])
    IN IF t.apps_evaluadas > 0
       THEN [type |-> "fraction", num |-> t.scores_sum * 100, den |-> 2 * t.apps_evaluadas]
       ELSE PyNone

GroupKey(r) == <<r.Dominio, r.Subdominio, r.Banco, r.Region>>

\* The rows of df_raw with the given group key, in row order.
GroupOf(df_raw, key) == SelectSeq(df_raw, LAMBDA r : GroupKey(r) = key)

\* The row of final_results for a group.
group_result(df_raw, key) ==
    [Dominio |-> key[1], Subdominio |-> key[2], Banco |-> key[3], Region |-> key[4],
     TotalAplicaciones |-> Len(GroupOf(df_raw, key)),
     pct |-> [i \in DOMAIN CRITERIA_LIST |->
                 percentage(GroupOf(df_raw, key), CRITERIA_LIST[i])]]

\* The group keys of one subdomain in the order of the sort of line 296: by
\* Region, then by Banco.
KeysInOrder ==
    << <<REPORT_DOMINIO, REPORT_SUBDOMINIO, "BoughtBank", "CAM">>,
       <<REPORT_DOMINIO, REPORT_SUBDOMINIO, "BuyerBank", "CAM">>,
       <<REPORT_DOMINIO, REPORT_SUBDOMINIO, "BoughtBank", "Colombia">>,
       <<REPORT_DOMINIO, REPORT_SUBDOMINIO, "BuyerBank", "Colombia">>,
       <<REPORT_DOMINIO, REPORT_SUBDOMINIO, "BoughtBank", "Otro">>,
       <<REPORT_DOMINIO, REPORT_SUBDOMINIO, "BuyerBank", "Otro">> >>

\* Lines 245-298: one row per group that has rows, sorted.
aggregate(df_raw) ==
    LET present == SelectSeq(KeysInOrder, LAMBDA key : GroupOf(df_raw, key) # <<>>)
    IN [i \in DOMAIN present |-> group_result(df_raw, present[i])]

-----------------------------------------------------------------------------
(* The report specification: generar_reporte over the lines of one file. *)

\* result_row of lines 214-227: the identifying fields and the verdicts.
result_row(parts, banco, resultados) ==
    [Dominio |-> REPORT_DOMINIO, Subdominio |-> REPORT_SUBDOMINIO,
     Banco |-> banco, Pais |-> parts[1], Region |-> get_region(parts[1]),
     Aplicacion |-> parts[3]] @@ resultados

InitReport ==
    /\ rep_pc = "line"
    /\ rep_lines \in ReportLineSeqs
    /\ rep_choices = [BuyerBank |-> ChoicesOf(ReportBuyerFrame, APP_COLUMN_NAME),
                      BoughtBank |-> ChoicesOf(ReportBoughtFrame, APP_COLUMN_NAME)]
    /\ rep_i = 1
    /\ rep_bank = "none"
    /\ rep_match = PyNone
    /\ rep_row = PyNone
    /\ all_app_evaluations = <<>>
    /\ final_results = <<>>
    /\ sheets = <<>>
    /\ NormIdle /\ MatchIdle /\ EvalIdle /\ DrvIdle /\ OrdIdle /\ ToolIdle

RepFixed == <<rep_lines, rep_choices, sheets>>
NotReport == <<normVars, matchVars, evalVars, drvVars, ordVars, toolVars>>

\* Lines 184-198: a line that has not three quoted fields, or whose source
\* tag is not recognized, is passed over.
ReportSkipLine ==
    /\ rep_pc = "line" /\ rep_i <= Len(rep_lines)
    /\ \/ Len(rep_lines[rep_i]) # 3
       \/ /\ Len(rep_lines[rep_i]) = 3
          /\ bank_name_of(rep_lines[rep_i][2]) = "none"
    /\ rep_i' = rep_i + 1
    /\ UNCHANGED <<rep_pc, rep_bank, rep_match, rep_row, all_app_evaluations,
                   final_results, RepFixed, NotReport>>

\* Lines 189-200: the source of the line and the name find_best_match returns.
ReportFindMatch ==
    /\ rep_pc = "line" /\ rep_i <= Len(rep_lines)
    /\ Len(rep_lines[rep_i]) = 3
    /\ bank_name_of(rep_lines[rep_i][2]) # "none"
    /\ rep_bank' = bank_name_of(rep_lines[rep_i][2])
    /\ rep_match' = find_best_match(rep_lines[rep_i][3], rep_choices[rep_bank']).ret
    /\ rep_pc' = "matched"
    /\ UNCHANGED <<rep_i, rep_row, all_app_evaluations, final_results, RepFixed,
                   NotReport>>

\* Lines 201-210: no name, no record of that name, or a record not marked.
ReportNoRow ==
    /\ rep_pc = "matched"
    /\ \/ Falsy(rep_match)
       \/ /\ ~Falsy(rep_match)
          /\ RowOf(report_df(rep_bank), rep_match.s).val = PyNone
       \/ /\ ~Falsy(rep_match)
          /\ RowOf(report_df(rep_bank), rep_match.s).val # PyNone
          /\ ~is_target(RowOf(report_df(rep_bank), rep_match.s).val)
    /\ rep_i' = rep_i + 1
    /\ rep_pc' = "line"
    /\ rep_match' = PyNone
    /\ rep_bank' = "none"
    /\ UNCHANGED <<rep_row, all_app_evaluations, final_results, RepFixed, NotReport>>

\* Lines 202-210: the marked record of the matched name.
ReportRetrieveRow ==
    /\ rep_pc = "matched"
    /\ ~Falsy(rep_match)
    /\ RowOf(report_df(rep_bank), rep_match.s).val # PyNone
    /\ is_target(RowOf(report_df(rep_bank), rep_match.s).val)
    /\ rep_row' = RowOf(report_df(rep_bank), rep_match.s).val
    /\ rep_pc' = "row"
    /\ UNCHANGED <<rep_i, rep_bank, rep_match, all_app_evaluations, final_results,
                   RepFixed, NotReport>>

\* Lines 211-229: the record is evaluated and its row appended.
ReportAddRow ==
    /\ rep_pc = "row"
    /\ all_app_evaluations' =
         Append(all_app_evaluations,
                result_row(rep_lines[rep_i], rep_bank,
                           evaluar_criterios(rep_row, rep_bank, CRITERIA_DB_MAP)))
    /\ rep_i' = rep_i + 1
    /\ rep_pc' = "line"
    /\ rep_match' = PyNone
    /\ rep_bank' = "none"
    /\ rep_row' = PyNone
    /\ UNCHANGED <<final_results, RepFixed, NotReport>>

\* Lines 236-240: no row was added, and no report is written.
ReportNoData ==
    /\ rep_pc = "line" /\ rep_i > Len(rep_lines)
    /\ all_app_evaluations = <<>>
    /\ rep_pc' = "nodata"
    /\ UNCHANGED <<rep_i, rep_bank, rep_match, rep_row, all_app_evaluations,
                   final_results, RepFixed, NotReport>>

\* Lines 242-298: the groups, their percentages, and the sort.
ReportAggregate ==
    /\ rep_pc = "line" /\ rep_i > Len(rep_lines)
    /\ all_app_evaluations # <<>>
    /\ final_results' = aggregate(all_app_evaluations)
    /\ rep_pc' = "done"
    /\ UNCHANGED <<rep_i, rep_bank, rep_match, rep_row, all_app_evaluations,
                   RepFixed, NotReport>>

\* The banks and regions the sheets are made for (lines 318-370).
SHEET_BANKS == <<"BuyerBank", "BoughtBank">>
SHEET_REGIONS == <<"Colombia", "CAM">>
SheetKeys == {<<kind, b, r>> : kind \in {"Resumen", "Datos_Raw"},
                               b \in Range(SHEET_BANKS), r \in Range(SHEET_REGIONS)}

\* df[(df["Banco"] == banco) & (df["Region"] == region)]
filter_banco_region(df, banco, region) ==
    SelectSeq(df, LAMBDA row : row.Banco = banco /\ row.Region = region)

\* df[excel_cols]: the columns of a summary sheet (lines 302-309).
excel_cols(row) ==
    [Dominio |-> row.Dominio, Subdominio |-> row.Subdominio,
     TotalAplicaciones |-> row.TotalAplicaciones, pct |-> row.pct]

ProjectRows(df) == [i \in DOMAIN df |-> excel_cols(df[i])]

\* Lines 317-370: the eight sheets written to the workbook.
written_sheets(df_final_report, df_raw) ==
    [key \in SheetKeys |->
        IF key[1] = "Resumen"
        THEN ProjectRows(filter_banco_region(df_final_report, key[2], key[3]))
        ELSE filter_banco_region(df_raw, key[2], key[3])]

\* Lines 313-372: the workbook is written.
ReportWriteSheets ==
    /\ rep_pc = "done"
    /\ sheets' = written_sheets(final_results, all_app_evaluations)
    /\ rep_pc' = "saved"
    /\ UNCHANGED <<rep_i, rep_bank, rep_match, rep_row, all_app_evaluations,
                   final_results, rep_lines, rep_choices, NotReport>>

\* Lines 375-379: writing the workbook raises; the error is printed.
ReportWriteFailed ==
    /\ rep_pc = "done"
    /\ rep_pc' = "save_failed"
    /\ UNCHANGED <<rep_i, rep_bank, rep_match, rep_row, all_app_evaluations,
                   final_results, RepFixed, NotReport>>

NextReport ==
    \/ ReportSkipLine
    \/ ReportFindMatch
    \/ ReportNoRow
    \/ ReportRetrieveRow
    \/ ReportAddRow
    \/ ReportNoData
    \/ ReportAggregate
    \/ ReportWriteSheets
    \/ ReportWriteFailed

SpecReport == InitReport /\ [][NextReport]_vars

-----------------------------------------------------------------------------
(* Claims about the report *)

\* The frame of the source a tag names, BUYERBANK being looked for first.
SourceOfTag(bank) ==
    IF Contains(str_upper(bank), L_BUYERBANK) THEN "BuyerBank"
    ELSE IF Contains(str_upper(bank), L_BOUGHTBANK) THEN "BoughtBank"
    ELSE "none"

\* The four conditions of a line that contributes a row.
Qualifies(parts) ==
    /\ Len(parts) = 3
    /\ SourceOfTag(parts[2]) # "none"
    /\ LET df == report_df(SourceOfTag(parts[2]))
           m == find_best_match(parts[3], ChoicesOf(df, APP_COLUMN_NAME)).ret
       IN /\ m # PyNone
          /\ \E i \in DOMAIN df.rows :
                /\ df.rows[i][APP_COLUMN_NAME] = <<m>>
                /\ df.rows[i][FLAG_COLUMN] = <<PyStr(T_Si)>>

\* The lines of the pool that contribute a row.
QualifyingLines == {parts \in ReportLines : Qualifies(parts)}

LineIdent(parts) == <<parts[1], SourceOfTag(parts[2]), parts[3]>>
RowIdent(r) == <<r.Pais, r.Banco, r.Aplicacion>>
LineGroup(parts) ==
    <<REPORT_DOMINIO, REPORT_SUBDOMINIO, SourceOfTag(parts[2]), get_region(parts[1])>>

\* C18: between two lines and at the end, the evaluation rows are exactly the
\* lines read so far whose tag is recognized, whose name find_best_match
\* resolves, and whose record of that name is marked 'Si', in line order; the
\* application count of every group of the result is the number of such lines
\* of the group, and no percentage is taken over more applications than that.
C18_RowIffMarkedMatch ==
    LET q == [i \in DOMAIN rep_lines |-> rep_lines[i] \in QualifyingLines]
        read == {i \in DOMAIN rep_lines : i < rep_i /\ q[i]}
    IN
    /\ rep_pc \in {"line", "nodata", "done"} =>
          /\ Len(all_app_evaluations) = Cardinality(read)
          /\ \A k \in DOMAIN all_app_evaluations :
                \E i \in read :
                   /\ Cardinality({j \in read : j <= i}) = k
                   /\ RowIdent(all_app_evaluations[k]) = LineIdent(rep_lines[i])
    /\ rep_pc = "nodata" => \A i \in DOMAIN rep_lines : ~q[i]
    /\ rep_pc = "done" =>
          /\ \A i \in DOMAIN rep_lines :
                q[i] => \E g \in DOMAIN final_results :
                           GroupKey(final_results[g]) = LineGroup(rep_lines[i])
          /\ \A g \in DOMAIN final_results :
                LET n == Cardinality({i \in DOMAIN rep_lines :
                                        /\ q[i]
                                        /\ LineGroup(rep_lines[i])
                                             = GroupKey(final_results[g])})
                IN /\ final_results[g].TotalAplicaciones = n
                   /\ \A c \in DOMAIN CRITERIA_LIST :
                         final_results[g].pct[c] # PyNone =>
                            final_results[g].pct[c].den <= 2 * n

\* The report ended after a marked match, an unmatched name and a match whose
\* record is marked "No": one row.
C18_Witness ==
    /\ rep_pc = "done"
    /\ Len(rep_lines) = 3
    /\ Len(all_app_evaluations) = 1
    /\ \E i \in DOMAIN rep_lines : Len(rep_lines[i]) = 3 /\ rep_lines[i][3] = Q_Zeta
    /\ \E i \in DOMAIN rep_lines : Len(rep_lines[i]) = 3 /\ rep_lines[i][3] = N_Nomina

\* The verdict counts of a criterion over the rows of a group.
VerdictCount(key, criterion, verdict) ==
    Cardinality({i \in DOMAIN all_app_evaluations :
                   /\ GroupKey(all_app_evaluations[i]) = key
                   /\ all_app_evaluations[i][criterion] = verdict})

\* C19: the result has one row for each (Dominio, Subdominio, Banco, Region)
\* group of evaluation rows, and for each criterion its percentage is
\* 100 * (Cumple + 0.5 * Parcialmente) / (Cumple + Parcialmente + No Cumple),
\* N/A and empty verdicts being left out of both, and None when the group has
\* no scored verdict.
C19_PercentageFormula ==
    rep_pc = "done" =>
       /\ \A i \in DOMAIN all_app_evaluations :
             Cardinality({g \in DOMAIN final_results :
                            GroupKey(final_results[g])
                              = GroupKey(all_app_evaluations[i])}) = 1
       /\ \A g \in DOMAIN final_results : \A c \in DOMAIN CRITERIA_LIST :
             LET key == GroupKey(final_results[g])
                 cumple == VerdictCount(key, CRITERIA_LIST[c], "Cumple")
                 parcial == VerdictCount(key, CRITERIA_LIST[c], "Parcialmente")
                 nocumple == VerdictCount(key, CRITERIA_LIST[c], "No Cumple")
                 scored == cumple + parcial + nocumple
                 pct == final_results[g].pct[c]
             IN IF scored = 0 THEN pct = PyNone
                ELSE /\ pct # PyNone
                     /\ pct.num * 2 * scored = 100 * (2 * cumple + parcial) * pct.den

\* A group of three applications whose seguridad verdicts are Cumple,
\* Parcialmente and N/A: 75 percent over two applications.
C19_Witness ==
    /\ rep_pc = "done"
    /\ \E g \in DOMAIN final_results :
          /\ final_results[g].TotalAplicaciones = 3
          /\ VerdictCount(GroupKey(final_results[g]), "seguridad", "N/A") = 1
          /\ final_results[g].pct[6] = [type |-> "fraction", num |-> 300, den |-> 4]

\* A group whose only seguridad verdicts are N/A or empty: no percentage.
C19_WitnessNone ==
    /\ rep_pc = "done"
    /\ \E g \in DOMAIN final_results :
          /\ final_results[g].TotalAplicaciones = 2
          /\ final_results[g].pct[6] = PyNone
          /\ final_results[g].pct[3] # PyNone

-----------------------------------------------------------------------------
(* The order of the files of a domain folder *)

\* CUSTOM_SORT_ORDER of config.py, a dict written as its items in order.
CUSTOM_SORT_ORDER ==
    << [key |-> <<"c","a","n","a","l","e","s">>,
        value |->
          << <<"s","i","t","i","o","_","p","u","b","l","i","c","o">>,
             <<"w","e","b","_","r","e","t","a","i","l">>,
             <<"a","p","p","_","r","e","t","a","i","l">>,
             <<"w","e","b","_","e","m","p","r","e","s","a","s">>,
             <<"a","p","p","_","e","m","p","r","e","s","a","s">>,
             <<"c","a","l","l","_","c","e","n","t","e","r">>,
             <<"s","u","c","u","r","s","a","l","e","s">>,
             <<"w","a","l","l","e","t">>,
             <<"p","l","a","t","a","f","o","r","m","a","s","_","d","e","_","t","e","r","c","e","r","o","s">>,
             <<"a","t","m">>,
             <<"p","o","s">>,
             <<"g","e","s","t","i","o","n","_","d","e","_","c","o","n","t","e","n","i","d","o","s">>,
             <<"c","r","m">>,
             <<"m","a","r","t","e","c","h">>,
             <<"o","t","r","o","s">> >>],
       [key |-> <<"I","n","t","e","g","r","a","c","i","o","n","P","r","o","c","e","s","o","s">>,
        value |->
          << <<"a","p","i","_","m","a","n","a","g","e","m","e","n","t","_","g","a","t","e","w","a","y">>,
             <<"m","i","c","r","o","s","e","r","v","i","c","i","o","s">>,
             <<"e","v","e","n","t","_","b","r","o","k","e","r">>,
             <<"b","p","m">>,
             <<"b","r","m","s">>,
             <<"m","e","s","s","a","g","e","_","b","r","o","k","e","r">>,
             <<"e","s","b","_","e","a","i">>,
             <<"t","r","a","n","s","f","e","r","e","n","c","i","a","_","d","e","_","a","r","c","h","i","v","o","s">>,
             <<"r","p","a">> >>],
       [key |-> <<"s","o","p","o","r","t","e","e","m","p","r","e","s","a","r","i","a","l">>,
        value |->
          << <<"e","r","p">>,
             <<"h","r">>,
             <<"a","u","d","i","t","o","r","i","a">>,
             <<"a","d","m","i","n","i","s","t","r","a","c","i","o","n","_","d","e","_","c","o","n","t","r","a","t","o","s">>,
             <<"r","i","e","s","g","o">>,
             <<"c","u","m","p","l","i","m","i","e","n","t","o">>,
             <<"m","e","r","c","a","d","o","s","_","t","e","s","o","r","e","r","i","a","_","c","o","m","e","x">> >>],
       [key |-> <<"c","o","r","e","b","a","n","k","i","n","g">>,
        value |->
          << <<"d","e","p","o","s","i","t","o","s","_","c","u","e","n","t","a","s","_","i","n","v","e","r","s","i","o","n","e","s">>,
             <<"c","r","e","d","i","t","o","s","_","e","_","i","n","v","e","r","s","i","o","n","e","s">>,
             <<"c","u","e","n","t","a","s","_","b","a","n","c","a","r","i","a","s","_","c","o","m","e","r","c","i","o","_","m","i","n","o","r","i","s","t","a","_","y","_","e","m","p","r","e","s","a","s">>,
             <<"p","a","g","o","s","_","y","_","t","a","r","j","e","t","a","s">>,
             <<"c","o","b","r","a","n","z","a","s">> >>],
       [key |-> <<"d","a","t","o","s">>,
        value |->
          << <<"a","l","m","a","c","e","n","a","m","i","e","n","t","o">>,
             <<"c","o","n","s","u","m","o">>,
             <<"g","o","b","i","e","r","n","o">>,
             <<"i","n","t","e","g","r","a","c","i","o","n","_","i","n","g","e","s","t","i","o","n","_","y","_","p","r","o","c","e","s","a","m","i","e","n","t","o">>,
             <<"s","e","r","v","i","c","i","o","s","_","d","a","t","o","s">> >>],
       [key |-> <<"o","p","e","r","a","c","i","o","n","t","i">>,
        value |->
          << <<"p","l","a","n","e","a","c","i","o","n","_","d","o","c","u","m","e","n","t","a","c","i","o","n","_","y","_","d","i","s","e","n","o">>,
             <<"d","e","s","a","r","r","o","l","l","o">>,
             <<"p","r","u","e","b","a","s">>,
             <<"d","e","s","p","l","i","e","g","u","e">>,
             <<"m","o","n","i","t","o","r","e","o","_","y","_","o","p","e","r","a","c","i","o","n","e","s">> >>] >>

\* CUSTOM_SORT_ORDER.get(domain_key)
SortOrderGet(domain_key) ==
    IF \E i \in DOMAIN CUSTOM_SORT_ORDER : CUSTOM_SORT_ORDER[i].key = domain_key
    THEN CUSTOM_SORT_ORDER[CHOOSE i \in DOMAIN CUSTOM_SORT_ORDER :
                              CUSTOM_SORT_ORDER[i].key = domain_key].value
    ELSE PyNone

\* The characters of the file names in code point order.
CodePoints ==
    <<" ", "-", ".">> \o DigitChars \o UpperLetters \o <<"_">> \o LowerLetters

Ord(c) == IndexOf(CodePoints, c)

RECURSIVE NameLess(_, _)
\* a < b for two file names
NameLess(a, b) ==
    IF b = <<>> THEN FALSE
    ELSE IF a = <<>> THEN TRUE
    ELSE IF Head(a) # Head(b) THEN Ord(Head(a)) < Ord(Head(b))
    ELSE NameLess(Tail(a), Tail(b))

RECURSIVE sorted(_)
\* sorted(files) for a collection of distinct strings
sorted(files) ==
    IF files = {} THEN <<>>
    ELSE LET first == CHOOSE f \in files : \A g \in files \ {f} : NameLess(f, g)
         IN <<first>> \o sorted(files \ {first})

L_txt == <<".","t","x","t">>

\* f.endswith(w)
EndsWith(f, w) == Len(w) <= Len(f) /\ SubSeq(f, Len(f) - Len(w) + 1, Len(f)) = w

\* os.path.splitext(f)[0]: the name up to its last dot, a dot that leads the
\* name not counting.
splitext0(f) ==
    LET dots == {i \in DOMAIN f : f[i] = "." /\ \E j \in 1..(i - 1) : f[j] # "."}
    IN IF dots = {} THEN f
       ELSE SubSeq(f, 1, (CHOOSE i \in dots : \A j \in dots : j <= i) - 1)

F_canales_sitio_publico == <<"c","a","n","a","l","e","s","_","s","i","t","i","o","_","p","u","b","l","i","c","o",".","t","x","t">>
F_canales_pos_1 == <<"c","a","n","a","l","e","s","_","p","o","s","_","1",".","t","x","t">>
F_canales_pos_2 == <<"c","a","n","a","l","e","s","_","p","o","s","_","2",".","t","x","t">>
F_canales_atm == <<"c","a","n","a","l","e","s","_","a","t","m",".","t","x","t">>
F_canales_crm == <<"c","a","n","a","l","e","s","_","c","r","m",".","t","x","t">>
F_canales_posventa == <<"c","a","n","a","l","e","s","_","p","o","s","v","e","n","t","a",".","t","x","t">>
F_canales_banca_movil == <<"c","a","n","a","l","e","s","_","b","a","n","c","a","_","m","o","v","i","l",".","t","x","t">>
F_canales_notas == <<"c","a","n","a","l","e","s","_","n","o","t","a","s",".","m","d">>
F_integracion_bpm == <<"i","n","t","e","g","r","a","c","i","o","n","p","r","o","c","e","s","o","s","_","b","p","m",".","t","x","t">>
F_integracion_microservicios == <<"i","n","t","e","g","r","a","c","i","o","n","p","r","o","c","e","s","o","s","_","m","i","c","r","o","s","e","r","v","i","c","i","o","s",".","t","x","t">>
F_integracion_rpa == <<"i","n","t","e","g","r","a","c","i","o","n","p","r","o","c","e","s","o","s","_","r","p","a",".","t","x","t">>
F_integracion_zeta == <<"i","n","t","e","g","r","a","c","i","o","n","p","r","o","c","e","s","o","s","_","z","e","t","a",".","t","x","t">>
F_riesgos_b == <<"r","i","e","s","g","o","s","_","b",".","t","x","t">>
F_riesgos_a_2 == <<"r","i","e","s","g","o","s","_","a","_","2",".","t","x","t">>
F_riesgos_a_10 == <<"r","i","e","s","g","o","s","_","a","_","1","0",".","t","x","t">>

D_Canales == <<"C","a","n","a","l","e","s">>
D_IntegracionProcesos == <<"I","n","t","e","g","r","a","c","i","o","n","P","r","o","c","e","s","o","s">>
D_Riesgos == <<"R","i","e","s","g","o","s">>

\* The domain folders and what os.listdir may find in each.
DomainNames == {D_Canales, D_IntegracionProcesos, D_Riesgos}
FolderPool(domain) ==
    IF domain = D_Canales
    THEN {F_canales_sitio_publico, F_canales_pos_1, F_canales_pos_2, F_canales_atm,
          F_canales_crm, F_canales_posventa, F_canales_banca_movil, F_canales_notas}
    ELSE IF domain = D_IntegracionProcesos
    THEN {F_integracion_bpm, F_integracion_microservicios, F_integracion_rpa,
          F_integracion_zeta}
    ELSE {F_riesgos_b, F_riesgos_a_2, F_riesgos_a_10}

domain_key == str_lower(domain_name)
ordered_base_names == SortOrderGet(domain_key)

\* if ordered_base_names: a list that is neither None nor empty
HasOrder == ordered_base_names # PyNone /\ ordered_base_names # <<>>

\* f"{domain_key}_{base_name}"
base_filename_prefix(base_name) == domain_key \o <<"_">> \o base_name

\* matching_files of lines 126-130
matching_files(base_name) ==
    {f \in all_txt_files_in_folder :
        StartsWith(splitext0(f), base_filename_prefix(base_name))}

\* Appending the files without looking at processed_files_set.
append_all(lst, files) == lst \o sorted(files)

\* Lines 132-135 and 138-145: the files not yet in processed_files_set are
\* appended in sorted order.
append_new(lst, files) ==
    lst \o SelectSeq(sorted(files), LAMBDA f : f \notin Range(lst))

-----------------------------------------------------------------------------
(* The ordering specification: one domain folder of main_orchestrator. *)

InitOrder ==
    /\ ord_pc = "scan"
    /\ domain_name \in DomainNames
    /\ \E listing \in SUBSET FolderPool(domain_name) :
          all_txt_files_in_folder = {f \in listing : EndsWith(f, L_txt)}
    /\ files_to_process_in_order = <<>>
    /\ base_i = 1
    /\ txt_i = 1
    /\ NormIdle /\ MatchIdle /\ EvalIdle /\ DrvIdle /\ RepIdle /\ ToolIdle

OrdFixed == <<domain_name, all_txt_files_in_folder>>
NotOrder == <<normVars, matchVars, evalVars, drvVars, repVars, toolVars>>

\* Lines 121-136: one pass of the loop over ordered_base_names.
OrderListed ==
    /\ ord_pc = "scan" /\ HasOrder
    /\ base_i <= Len(ordered_base_names)
    /\ files_to_process_in_order' =
         append_new(files_to_process_in_order,
                    matching_files(ordered_base_names[base_i]))
    /\ base_i' = base_i + 1
    /\ UNCHANGED <<ord_pc, txt_i, OrdFixed, NotOrder>>

\* Lines 139-146: the files no base name matched, sorted, at the end.
OrderUnlisted ==
    /\ ord_pc = "scan" /\ HasOrder
    /\ base_i > Len(ordered_base_names)
    /\ files_to_process_in_order' =
         append_new(files_to_process_in_order, all_txt_files_in_folder)
    /\ ord_pc' = "ordered"
    /\ UNCHANGED <<base_i, txt_i, OrdFixed, NotOrder>>

\* Lines 148-153: no list for domain_key, the files in sorted order.
OrderFallback ==
    /\ ord_pc = "scan" /\ ~HasOrder
    /\ files_to_process_in_order' = sorted(all_txt_files_in_folder)
    /\ ord_pc' = "ordered"
    /\ UNCHANGED <<base_i, txt_i, OrdFixed, NotOrder>>

\* Lines 157-161: a folder with no .txt file is passed over.
SkipDomain ==
    /\ ord_pc = "ordered" /\ files_to_process_in_order = <<>>
    /\ ord_pc' = "skipped"
    /\ UNCHANGED <<files_to_process_in_order, base_i, txt_i, OrdFixed, NotOrder>>

\* Lines 168-203: one pass of the loop over files_to_process_in_order.
ProcessFile ==
    /\ ord_pc = "ordered"
    /\ txt_i <= Len(files_to_process_in_order)
    /\ txt_i' = txt_i + 1
    /\ UNCHANGED <<ord_pc, files_to_process_in_order, base_i, OrdFixed, NotOrder>>

\* Lines 205-217: the presentation of the domain is saved.
SaveDomain ==
    /\ ord_pc = "ordered" /\ files_to_process_in_order # <<>>
    /\ txt_i > Len(files_to_process_in_order)
    /\ ord_pc' = "saved"
    /\ UNCHANGED <<files_to_process_in_order, base_i, txt_i, OrdFixed, NotOrder>>

NextOrder ==
    \/ OrderListed
    \/ OrderUnlisted
    \/ OrderFallback
    \/ SkipDomain
    \/ ProcessFile
    \/ SaveDomain

SpecOrder == InitOrder /\ [][NextOrder]_vars

-----------------------------------------------------------------------------
(* Claims about the order of the files *)

\* The list of the entry of CUSTOM_SORT_ORDER written for a domain folder:
\* the entry whose key is the folder's name, letter case apart.
EntryOf(domain) ==
    IF \E i \in DOMAIN CUSTOM_SORT_ORDER :
          str_lower(CUSTOM_SORT_ORDER[i].key) = str_lower(domain)
    THEN CUSTOM_SORT_ORDER[CHOOSE i \in DOMAIN CUSTOM_SORT_ORDER :
            str_lower(CUSTOM_SORT_ORDER[i].key) = str_lower(domain)].value
    ELSE PyNone

\* A name without its trailing _<digits>.
WithoutPartNumber(s) ==
    LET cuts == {i \in DOMAIN s : /\ s[i] = "_" /\ i < Len(s)
                                  /\ IsDigits(SubSeq(s, i + 1, Len(s)))}
    IN IF cuts = {} THEN s ELSE SubSeq(s, 1, (CHOOSE i \in cuts : TRUE) - 1)

\* The subdomain a file belongs to: its stem without the domain prefix and
\* without the part number.
SubdomainOf(f) ==
    LET stem == splitext0(f)
        prefix == str_lower(domain_name) \o <<"_">>
    IN WithoutPartNumber(IF StartsWith(stem, prefix) THEN Drop(stem, Len(prefix))
                         ELSE stem)

\* The place of the subdomain of a file in the configured list of the domain,
\* unlisted subdomains after every listed one.
ListedRank(f) ==
    LET order_list == EntryOf(domain_name)
    IN IF \E i \in DOMAIN order_list : order_list[i] = SubdomainOf(f)
       THEN CHOOSE i \in DOMAIN order_list : order_list[i] = SubdomainOf(f)
       ELSE Len(order_list) + 1

\* C20: once the list of a domain is built, if the domain has an entry in
\* CUSTOM_SORT_ORDER every file of an earlier-listed subdomain stands before
\* every file of a later-listed one and the files of unlisted subdomains are
\* last; if it has none, the list is the sorted list of the files.
C20_ConfiguredOrder ==
    ord_pc \in {"ordered", "skipped", "saved"} =>
       IF EntryOf(domain_name) # PyNone
       THEN \A i, j \in DOMAIN files_to_process_in_order :
               i < j => ListedRank(files_to_process_in_order[i])
                          <= ListedRank(files_to_process_in_order[j])
       ELSE files_to_process_in_order = sorted(all_txt_files_in_folder)

-----------------------------------------------------------------------------
(* Claims about the noise phrases *)

\* The orders in which the three noise phrases can be removed.
NoiseOrders ==
    {words \in [1..Len(noise_words) -> Range(noise_words)] :
        \A i, j \in DOMAIN words : i # j => words[i] # words[j]}

\* The body of normalize_string with the noise phrases removed in the order
\* of words.
NormalizeInOrder(s, words) ==
    CollapseWs(str_strip(StripOtherChars(
        RemoveNoise(SubParens(str_lower(unidecode(TranslateSubscripts(s)))), words))))

\* C21: the key of a string is the same whatever the order in which the noise
\* phrases are removed, so that a name holding "no tsa" loses the whole phrase.
C21_NoiseOrderIrrelevant ==
    (norm_pc # "start" /\ norm_in.type = "str") =>
        \A words \in NoiseOrders : NormalizeInOrder(norm_in.s, words) = norm_out.val

-----------------------------------------------------------------------------
(* main_orchestrator: loading the data *)

\* load_data_from_db(): the tuple it returns for the database it finds. The
\* connection fails for "down", the reading of the tables for "unreadable".
load_data_from_db(db) ==
    IF db = "up" THEN <<"df_buyer", "df_bought", "engine">>
    ELSE <<PyNone, PyNone, PyNone>>

\* The names the returned tuple is unpacked into at lines 49-52.
MAIN_UNPACK_TARGETS == <<"df_buyer", "df_bought">>

\* The .txt files a domain folder of inputs/ may hold.
MainFileSets(domain) ==
    SUBSET (FolderPool(domain) \cap
            {F_canales_atm, F_canales_pos_1, F_integracion_bpm, F_integracion_rpa,
             F_riesgos_b, F_riesgos_a_2})

\* The contents of inputs/: some domain folders, each with some files.
InputFolders ==
    UNION {{f \in [D -> UNION {MainFileSets(d) : d \in D}] :
               \A d \in D : f[d] \in MainFileSets(d)} : D \in SUBSET DomainNames}

-----------------------------------------------------------------------------
(* The orchestrator specification: main_orchestrator from its first line. *)

InitMain ==
    /\ main_pc = "load"
    /\ db_state \in {"up", "down", "unreadable"}
    /\ input_folder \in InputFolders
    /\ loaded = PyNone
    /\ main_raised = "none"
    /\ WaitIdle /\ SugIdle /\ DedupIdle
    /\ NormIdle /\ MatchIdle /\ EvalIdle /\ DrvIdle /\ RepIdle /\ OrdIdle

NotMain ==
    <<normVars, matchVars, evalVars, drvVars, repVars, ordVars, waitVars, sugVars,
      dedupVars>>

\* Line 52: the call of load_data_from_db.
MainLoad ==
    /\ main_pc = "load"
    /\ loaded' = load_data_from_db(db_state)
    /\ main_pc' = "unpack"
    /\ UNCHANGED <<db_state, input_folder, main_raised, NotMain>>

\* Lines 49-52: the returned tuple is unpacked into the target names; a tuple
\* of another length raises ValueError, which nothing catches.
MainUnpack ==
    /\ main_pc = "unpack"
    /\ IF Len(loaded) = Len(MAIN_UNPACK_TARGETS)
       THEN main_pc' = "loaded" /\ main_raised' = main_raised
       ELSE main_pc' = "raised" /\ main_raised' = "ValueError"
    /\ UNCHANGED <<db_state, input_folder, loaded, NotMain>>

NextMain == MainLoad \/ MainUnpack

SpecMain == InitMain /\ [][NextMain]_vars

\* The folder holds a domain folder with at least one .txt file.
HasInputFiles == \E d \in DOMAIN input_folder : input_folder[d] # {}

\* C22: when the database is loaded and inputs/ holds a domain folder with
\* .txt files, main_orchestrator is not left by an exception: it goes on to
\* the file loop and the saving of the presentations.
C22_RunsToTheEnd ==
    (db_state = "up" /\ HasInputFiles) => main_pc # "raised"

-----------------------------------------------------------------------------
(* Claims about the names find_best_match returns *)

\* The names of the source that a later name with the same key replaced in
\* the lookup.
LostNames ==
    {src_names[i] : i \in {k \in DOMAIN src_names :
        \E j \in DOMAIN src_names :
            /\ k < j
            /\ src_names[j] # src_names[k]
            /\ NormKey(src_names[j]) = NormKey(src_names[k])}}

\* C24: what find_best_match returns is no match or the value of a key of the
\* lookup, and never a name of the source that lost its key to a later name.
C24_ResultInLookup ==
    match_pc = "matched" =>
        /\ \/ excel_match.ret = PyNone
           \/ \E i \in DOMAIN choices : excel_match.ret = PyStr(choices[i].value)
        /\ \A n \in LostNames : excel_match.ret # PyStr(n)

\* The line names a name that lost its key, and the name that holds the key
\* is returned.
C24_Witness ==
    /\ match_pc = "matched"
    /\ line_app_name \in LostNames
    /\ excel_match.ret # PyNone
    /\ excel_match.ret # PyStr(line_app_name)

-----------------------------------------------------------------------------
(* Claims about the two outcomes of a line *)

\* A verdict set was computed for the line at pos of file f.
HasVerdicts(f, pos) ==
    \E k \in DOMAIN slide_log :
        /\ slide_log[k].file = f /\ slide_log[k].pos = pos
        /\ slide_log[k].resultados # PyNone

\* The line at pos of file f was appended to the pending list.
WasMadePending(f, pos) ==
    \E k \in DOMAIN slide_log :
        /\ slide_log[k].file = f /\ slide_log[k].pos = pos
        /\ slide_log[k].kind = "pending"

\* Every value of the two lookups is the name of a record of its source.
LookupValuesAreRecords ==
    /\ \A i \in DOMAIN choices_buyer :
          \E r \in DOMAIN BuyerFrame(app_column).rows :
             BuyerFrame(app_column).rows[r][app_column] = <<PyStr(choices_buyer[i].value)>>
    /\ \A i \in DOMAIN choices_bought :
          \E r \in DOMAIN BoughtFrame(app_column).rows :
             BoughtFrame(app_column).rows[r][app_column] = <<PyStr(choices_bought[i].value)>>

C25_NeverBoth ==
    \A f \in DOMAIN txt_files : \A pos \in DOMAIN txt_files[f] :
        ~(HasVerdicts(f, pos) /\ WasMadePending(f, pos))

-----------------------------------------------------------------------------
(* Claims about the textual form of a seguridad rating *)

\* The number the seguridad cell of the record holds, when it is a whole
\* number 0..5 written with or without a fraction of zeros.
SegNumber ==
    LET text == get_value_from_row(eval_row, COL_SEG)
    IN IF text = PyNone THEN PyNone
       ELSE LET x == py_float(text.s)
            IN IF x.ok /\ x.kind = "num" /\ ~x.neg /\ x.fraczero /\ x.whole \in 0..5
               THEN PyInt(x.whole) ELSE PyNone

\* The record with its seguridad cell written as the digits of n.
WithSegText(n) == [eval_row EXCEPT ![COL_SEG] = <<PyStr(NatToStr(n))>>]

\* C26: the seguridad verdict of a record whose rating is a whole number
\* 0..5 is the verdict of the record with the rating written as "n",
\* whatever the textual form ("n", "n.0", " n.0") it is stored in.
C26_SeguridadByValue ==
    (eval_pc = "done" /\ eval_map = CRITERIA_DB_MAP /\ SegNumber # PyNone) =>
        resultados_evaluacion.seguridad
          = eval_seguridad(WithSegText(SegNumber.n), CRITERIA_DB_MAP)

-----------------------------------------------------------------------------
(* load_database.py: wait_for_db and the load it guards *)

MaxRetries == 3
DEFAULT_RETRIES == 15
DEFAULT_WAIT_TIME == 5

TABLE_CONSOLIDADO == "aplicaciones_consolidadas"

\* A loop head that takes a value past the end of range(n).
range_has_next_inclusive(i, n) == i <= n

\* for i in range(n): the loop head has a next value while i < n.
range_has_next(i, n) == i < n

InitWait ==
    /\ wait_pc = "for"
    /\ wait_caller \in {"load_data_to_db", "direct"}
    /\ retries \in (0..MaxRetries) \cup {DEFAULT_RETRIES}
    /\ wait_time \in {0, DEFAULT_WAIT_TIME}
    /\ wait_caller = "load_data_to_db" =>
           retries = DEFAULT_RETRIES /\ wait_time = DEFAULT_WAIT_TIME
    /\ wait_i = 0
    /\ wait_ret = NoCall
    /\ attempts = 0
    /\ tables = {}
    /\ MainIdle /\ SugIdle /\ DedupIdle
    /\ NormIdle /\ MatchIdle /\ EvalIdle /\ DrvIdle /\ RepIdle /\ OrdIdle

NotWait ==
    <<normVars, matchVars, evalVars, drvVars, repVars, ordVars, mainVars, sugVars,
      dedupVars>>

WaitArgs == <<wait_caller, retries, wait_time>>

\* Lines 57-62: the connection and the SELECT 1 succeed; return True.
WaitConnected ==
    /\ wait_pc = "for"
    /\ range_has_next(wait_i, retries)
    /\ attempts' = attempts + 1
    /\ wait_ret' = Ret(TRUE)
    /\ wait_pc' = "returned"
    /\ UNCHANGED <<WaitArgs, wait_i, tables, NotWait>>

\* Lines 57-63: the attempt raises OperationalError, which is caught.
WaitOperationalError ==
    /\ wait_pc = "for"
    /\ range_has_next(wait_i, retries)
    /\ attempts' = attempts + 1
    /\ wait_pc' = "sleep"
    /\ UNCHANGED <<WaitArgs, wait_i, wait_ret, tables, NotWait>>

\* Lines 57-60: the attempt raises an exception that is no OperationalError;
\* no except clause takes it and it leaves wait_for_db and its caller.
WaitOtherError ==
    /\ wait_pc = "for"
    /\ range_has_next(wait_i, retries)
    /\ attempts' = attempts + 1
    /\ wait_ret' = Raise("DBAPIError")
    /\ wait_pc' = "raised"
    /\ UNCHANGED <<WaitArgs, wait_i, tables, NotWait>>

\* Lines 64-65: time.sleep(wait_time), then the next value of i.
WaitSleep ==
    /\ wait_pc = "sleep"
    /\ wait_i' = wait_i + 1
    /\ wait_pc' = "for"
    /\ UNCHANGED <<WaitArgs, wait_ret, attempts, tables, NotWait>>

\* Lines 67-68: the range is exhausted; return False.
WaitExhausted ==
    /\ wait_pc = "for"
    /\ ~range_has_next(wait_i, retries)
    /\ wait_ret' = Ret(FALSE)
    /\ wait_pc' = "returned"
    /\ UNCHANGED <<WaitArgs, wait_i, attempts, tables, NotWait>>

\* Lines 129-131: load_data_to_db returns when wait_for_db returned False.
LoadAbort ==
    /\ wait_pc = "returned"
    /\ wait_caller = "load_data_to_db"
    /\ wait_ret = Ret(FALSE)
    /\ wait_pc' = "aborted"
    /\ UNCHANGED <<WaitArgs, wait_i, wait_ret, attempts, tables, NotWait>>

\* Lines 135-156: the master workbooks are loaded and their columns cleaned.
LoadExcels ==
    /\ wait_pc = "returned"
    /\ wait_caller = "load_data_to_db"
    /\ wait_ret = Ret(TRUE)
    /\ wait_pc' = "write_buyer"
    /\ UNCHANGED <<WaitArgs, wait_i, wait_ret, attempts, tables, NotWait>>

\* Lines 137-139: load_master_excels gave None for a frame.
LoadExcelsFailed ==
    /\ wait_pc = "returned"
    /\ wait_caller = "load_data_to_db"
    /\ wait_ret = Ret(TRUE)
    /\ wait_pc' = "aborted"
    /\ UNCHANGED <<WaitArgs, wait_i, wait_ret, attempts, tables, NotWait>>

\* Lines 161-162, 166-167, 214-217: one to_sql call writes its table.
WriteTable ==
    /\ wait_pc \in {"write_buyer", "write_bought", "write_consolidado"}
    /\ tables' = tables \cup
         { CASE wait_pc = "write_buyer" -> TABLE_BUYER_BANK
             [] wait_pc = "write_bought" -> TABLE_BOUGHT_BANK
             [] OTHER -> TABLE_CONSOLIDADO }
    /\ wait_pc' = CASE wait_pc = "write_buyer" -> "write_bought"
                    [] wait_pc = "write_bought" -> "read_consolidado"
                    [] OTHER -> "complete"
    /\ UNCHANGED <<WaitArgs, wait_i, wait_ret, attempts, NotWait>>

\* Lines 170-173, 221-224: to_sql raises; the except clause returns.
WriteFailed ==
    /\ wait_pc \in {"write_buyer", "write_bought", "write_consolidado"}
    /\ wait_pc' = "aborted"
    /\ UNCHANGED <<WaitArgs, wait_i, wait_ret, attempts, tables, NotWait>>

\* Lines 178-208: Consolidado.xlsx is read and its columns cleaned.
ReadConsolidado ==
    /\ wait_pc = "read_consolidado"
    /\ wait_pc' = "write_consolidado"
    /\ UNCHANGED <<WaitArgs, wait_i, wait_ret, attempts, tables, NotWait>>

\* Lines 187-193: reading Consolidado.xlsx raises; the except clause returns.
ReadConsolidadoFailed ==
    /\ wait_pc = "read_consolidado"
    /\ wait_pc' = "aborted"
    /\ UNCHANGED <<WaitArgs, wait_i, wait_ret, attempts, tables, NotWait>>

NextWait ==
    \/ WaitConnected
    \/ WaitOperationalError
    \/ WaitOtherError
    \/ WaitSleep
    \/ WaitExhausted
    \/ LoadAbort
    \/ LoadExcels
    \/ LoadExcelsFailed
    \/ WriteTable
    \/ WriteFailed
    \/ ReadConsolidado
    \/ ReadConsolidadoFailed

SpecWait == InitWait /\ [][NextWait]_vars

\* The interpreter keeps running the statements of the call: a step that
\* can be taken is taken.
SpecWaitFair == SpecWait /\ WF_vars(NextWait)

\* wait_for_db has left its loop, by a return or by an exception.
WaitOver == wait_ret # NoCall

\* C23: wait_for_db terminates; it makes at most retries attempts, returns
\* True at the first successful attempt and makes none after it, returns
\* False only after retries failed attempts, and load_data_to_db has written
\* no table when wait_for_db returned False.
C23_WaitTerminates ==
    /\ <>WaitOver
    /\ [](attempts <= retries)
    /\ [](wait_ret = Ret(TRUE) => attempts = wait_i + 1)
    /\ [](wait_ret = Ret(FALSE) => (attempts = retries /\ wait_i = retries))
    /\ [](wait_ret = Ret(FALSE) => tables = {})
    /\ [][wait_ret # NoCall => attempts' = attempts]_vars

\* wait_for_db returned True at a third attempt, after two failures, and
\* load_data_to_db went on to write its tables.
C23_Witness ==
    /\ wait_ret = Ret(TRUE)
    /\ attempts = 3
    /\ wait_caller = "load_data_to_db"
    /\ TABLE_CONSOLIDADO \in tables

\* wait_for_db returned False after all the default retries failed and
\* load_data_to_db returned.
C23_WitnessFalse ==
    /\ wait_ret = Ret(FALSE)
    /\ attempts = DEFAULT_RETRIES
    /\ wait_pc = "aborted"

-----------------------------------------------------------------------------
(* find_sugerencias.py: parse_pendientes *)

MaxPend == 3

DQ == "\""
L_dashes == <<"-","-","-">>
L_BuyerBank == <<"B","u","y","e","r","B","a","n","k">>
L_BoughtBank == <<"B","o","u","g","h","t","B","a","n","k">>

\* Position of the first double quote of s at or after from, 0 if none.
RECURSIVE quote_index(_, _)
quote_index(s, from) ==
    IF from > Len(s) THEN 0
    ELSE IF s[from] = DQ THEN from
    ELSE quote_index(s, from + 1)

\* re.findall(r'"(.*?)"', line): the texts between successive pairs of
\* double quotes, each closed by the first quote after its opening one.
RECURSIVE re_findall_quoted(_)
re_findall_quoted(line) ==
    LET i == quote_index(line, 1)
        j == IF i = 0 THEN 0 ELSE quote_index(line, i + 1)
    IN IF j = 0 THEN <<>>
       ELSE <<SubSeq(line, i + 1, j - 1)>>
              \o re_findall_quoted(SubSeq(line, j + 1, Len(line)))

\* A line of a subdomain file as it is written: three quoted fields.
QuotedLine(fields) ==
    LET q(f) == <<DQ>> \o f \o <<DQ>>
    IN IF Len(fields) = 3
       THEN q(fields[1]) \o <<",", " ">> \o q(fields[2]) \o <<",", " ">> \o q(fields[3])
       ELSE q(fields[1]) \o <<",", " ">> \o q(fields[2])

\* Lines pendientes.txt can hold: lines of the subdomain files with the tags
\* the driver takes for a source, in the cases the files use, a line with an
\* unknown tag, one with two fields, a separator and an empty line.
PendingTexts ==
    { QuotedLine(<<P_Colombia, B_BuyerBank, Q_Nomina>>),
      QuotedLine(<<P_Colombia, B_boughtbank, Q_SAP_FI>>),
      <<" ">> \o QuotedLine(<<P_Peru, B_BoughtBank_TSA, <<" ">> \o Q_Zeta>>),
      QuotedLine(<<P_Colombia, B_OtroBanco, N_PagosWeb>>),
      QuotedLine(<<P_Colombia, N_PagosWeb>>),
      L_dashes \o <<" ">> \o Q_Zeta,
      <<>> }

PendingFiles == UNION {[1..n -> PendingTexts] : n \in 0..MaxPend}

InitSug ==
    /\ sug_pc = "open"
    /\ pendientes \in PendingFiles
    /\ sug_i = 1
    /\ pending_buyer = {}
    /\ pending_bought = {}
    /\ MainIdle /\ WaitIdle /\ DedupIdle
    /\ NormIdle /\ MatchIdle /\ EvalIdle /\ DrvIdle /\ RepIdle /\ OrdIdle

NotSug ==
    <<normVars, matchVars, evalVars, drvVars, repVars, ordVars, mainVars, waitVars,
      dedupVars>>

\* The line the loop is at, stripped (line 51).
sug_line == str_strip(pendientes[sug_i])
sug_parts == re_findall_quoted(sug_line)
SugAtLine == sug_pc = "parse" /\ sug_i <= Len(pendientes)
SugSkipped(line) == line = <<>> \/ StartsWith(line, L_dashes)

\* Lines 48-49: the file is opened.
SugOpen ==
    /\ sug_pc = "open"
    /\ sug_pc' = "parse"
    /\ UNCHANGED <<pendientes, sug_i, pending_buyer, pending_bought, NotSug>>

\* Lines 49, 64-69: the file does not exist; None, None is returned.
SugNoFile ==
    /\ sug_pc = "open"
    /\ sug_pc' = "nofile"
    /\ UNCHANGED <<pendientes, sug_i, pending_buyer, pending_bought, NotSug>>

\* Lines 52-53: an empty line or a separator is passed over.
SugSkipLine ==
    /\ SugAtLine
    /\ SugSkipped(sug_line)
    /\ sug_i' = sug_i + 1
    /\ UNCHANGED <<sug_pc, pendientes, pending_buyer, pending_bought, NotSug>>

\* Lines 55-61: a line of three fields whose tag holds "BuyerBank".
SugAddBuyer ==
    /\ SugAtLine
    /\ ~SugSkipped(sug_line)
    /\ Len(sug_parts) = 3
    /\ Contains(sug_parts[2], L_BuyerBank)
    /\ pending_buyer' = pending_buyer \cup {str_strip(sug_parts[3])}
    /\ sug_i' = sug_i + 1
    /\ UNCHANGED <<sug_pc, pendientes, pending_bought, NotSug>>

\* Lines 55-63: a line of three fields whose tag holds "BoughtBank".
SugAddBought ==
    /\ SugAtLine
    /\ ~SugSkipped(sug_line)
    /\ Len(sug_parts) = 3
    /\ ~Contains(sug_parts[2], L_BuyerBank)
    /\ Contains(sug_parts[2], L_BoughtBank)
    /\ pending_bought' = pending_bought \cup {str_strip(sug_parts[3])}
    /\ sug_i' = sug_i + 1
    /\ UNCHANGED <<sug_pc, pendientes, pending_buyer, NotSug>>

\* Lines 55-63: a line without three fields, or with a tag holding neither.
SugIgnoreLine ==
    /\ SugAtLine
    /\ ~SugSkipped(sug_line)
    /\ \/ Len(sug_parts) # 3
       \/ /\ Len(sug_parts) = 3
          /\ ~Contains(sug_parts[2], L_BuyerBank)
          /\ ~Contains(sug_parts[2], L_BoughtBank)
    /\ sug_i' = sug_i + 1
    /\ UNCHANGED <<sug_pc, pendientes, pending_buyer, pending_bought, NotSug>>

\* Line 71: the file is read through; the two sets are returned.
SugReturn ==
    /\ sug_pc = "parse"
    /\ sug_i > Len(pendientes)
    /\ sug_pc' = "returned"
    /\ UNCHANGED <<pendientes, sug_i, pending_buyer, pending_bought, NotSug>>

NextSug ==
    \/ SugOpen
    \/ SugNoFile
    \/ SugSkipLine
    \/ SugAddBuyer
    \/ SugAddBought
    \/ SugIgnoreLine
    \/ SugReturn

SpecSug == InitSug /\ [][NextSug]_vars

\* The fields the orchestrator reads from a line (main.py lines 180-185).
FieldsOf(text) == re_findall_quoted(str_strip(text))

(* C27 as claimed: a line of pendientes.txt whose tag the driver takes for  *)
(* BuyerBank (BoughtBank) has its name in the Buyer (Bought) set that       *)
(* parse_pendientes returns.                                               *)
C27_SameBank ==
    sug_pc = "returned" =>
        \A k \in DOMAIN pendientes :
            LET parts == FieldsOf(pendientes[k])
            IN Len(parts) = 3 =>
                 /\ bank_name_of(parts[2]) = "BuyerBank" =>
                        str_strip(parts[3]) \in pending_buyer
                 /\ bank_name_of(parts[2]) = "BoughtBank" =>
                        str_strip(parts[3]) \in pending_bought

\* The same for the lines whose tag is written as the code of
\* parse_pendientes spells it.
C27_SameBankAsSpelled ==
    sug_pc = "returned" =>
        \A k \in DOMAIN pendientes :
            LET parts == FieldsOf(pendientes[k])
            IN (Len(parts) = 3 /\ parts[2] # B_boughtbank) =>
                 /\ bank_name_of(parts[2]) = "BuyerBank" =>
                        str_strip(parts[3]) \in pending_buyer
                 /\ bank_name_of(parts[2]) = "BoughtBank" =>
                        str_strip(parts[3]) \in pending_bought

-----------------------------------------------------------------------------
(* Claims about the sheets of the report workbook *)

RawSheetKeys == {key \in SheetKeys : key[1] = "Datos_Raw"}
ResumenSheetKeys == {key \in SheetKeys : key[1] = "Resumen"}

RECURSIVE SumTotal(_)
SumTotal(rows) ==
    IF rows = <<>> THEN 0 ELSE Head(rows).TotalAplicaciones + SumTotal(Tail(rows))

\* Number of rows of the sheets of a set.
RECURSIVE RowsIn(_)
RowsIn(keys) ==
    IF keys = {} THEN 0
    ELSE LET key == CHOOSE k \in keys : TRUE
         IN Len(sheets[key]) + RowsIn(keys \ {key})

\* Sum of the Total Aplicaciones column over the sheets of a set.
RECURSIVE TotalIn(_)
TotalIn(keys) ==
    IF keys = {} THEN 0
    ELSE LET key == CHOOSE k \in keys : TRUE
         IN SumTotal(sheets[key]) + TotalIn(keys \ {key})

(* C28 as claimed: every collected row is in exactly one Datos_Raw sheet   *)
(* and every group in exactly one Resumen sheet, so the Total Aplicaciones *)
(* of the four Resumen sheets add up to the number of evaluated rows.      *)
C28_SheetsPartition ==
    rep_pc = "saved" =>
        /\ \A i \in DOMAIN all_app_evaluations :
              Cardinality({key \in RawSheetKeys :
                  \E j \in DOMAIN sheets[key] :
                      sheets[key][j] = all_app_evaluations[i]}) = 1
        /\ RowsIn(RawSheetKeys) = Len(all_app_evaluations)
        /\ RowsIn(ResumenSheetKeys) = Len(final_results)
        /\ TotalIn(ResumenSheetKeys) = Len(all_app_evaluations)

\* The same for the runs all of whose rows are of the regions Colombia or CAM.
C28_PartitionOfKnownRegions ==
    (rep_pc = "saved"
       /\ \A i \in DOMAIN all_app_evaluations :
              all_app_evaluations[i].Region \in Range(SHEET_REGIONS)) =>
        /\ \A i \in DOMAIN all_app_evaluations :
              Cardinality({key \in RawSheetKeys :
                  \E j \in DOMAIN sheets[key] :
                      sheets[key][j] = all_app_evaluations[i]}) = 1
        /\ RowsIn(RawSheetKeys) = Len(all_app_evaluations)
        /\ RowsIn(ResumenSheetKeys) = Len(final_results)
        /\ TotalIn(ResumenSheetKeys) = Len(all_app_evaluations)

-----------------------------------------------------------------------------
(* Claims about the completeness of the processing order *)

\* The configured names whose prefix a file name starts with.
PrefixesOf(f) ==
    IF HasOrder
    THEN {i \in DOMAIN ordered_base_names : f \in matching_files(ordered_base_names[i])}
    ELSE {}

\* Number of positions of the list that hold f.
Occurrences(lst, f) == Cardinality({i \in DOMAIN lst : lst[i] = f})

\* C29: once the list of a domain folder is built, every .txt file of the
\* folder is in it exactly once and nothing else is in it.
C29_OrderIsPermutation ==
    ord_pc # "scan" =>
        /\ \A f \in all_txt_files_in_folder :
              Occurrences(files_to_process_in_order, f) = 1
        /\ Range(files_to_process_in_order) = all_txt_files_in_folder

\* A folder with a configured order holding a file that starts with the
\* prefix of a configured name and a file that starts with none.
C29_Witness ==
    /\ ord_pc = "ordered"
    /\ HasOrder
    /\ Len(files_to_process_in_order) >= 3
    /\ \E f \in all_txt_files_in_folder : PrefixesOf(f) = {}
    /\ \E f \in all_txt_files_in_folder : PrefixesOf(f) # {}

\* A file that starts with the prefixes of two configured names; no
\* configured name of CUSTOM_SORT_ORDER starts with another one of its
\* domain, so no file name does.
C29_TwoPrefixes ==
    \E f \in all_txt_files_in_folder : Cardinality(PrefixesOf(f)) >= 2

-----------------------------------------------------------------------------
(* load_database.py: deduplicate_columns *)

MaxCols == 3

C_col == <<"c","o","l">>
C_col_1 == <<"c","o","l","_","1">>
C_id == <<"i","d">>

\* Column names after clean_and_truncate_cols: a name, a name that ends in
\* a number after an underscore, a third name.
ColumnNames == {C_col, C_col_1, C_id}

ColumnLists == UNION {[1..n -> ColumnNames] : n \in 0..MaxCols}

\* counts.get(col, 0)
counts_get(d, col) == IF col \in DOMAIN d THEN d[col] ELSE 0

\* Lines 80-83: f"{col}_{counts[col]}" for a repeat, col for a first one.
new_name(col, count) ==
    IF count > 0 THEN col \o <<"_">> \o NatToStr(count) ELSE col

InitDedup ==
    /\ dedup_pc = "for"
    /\ df_columns \in ColumnLists
    /\ new_cols = <<>>
    /\ counts = <<>>
    /\ MainIdle /\ WaitIdle /\ SugIdle
    /\ NormIdle /\ MatchIdle /\ EvalIdle /\ DrvIdle /\ RepIdle /\ OrdIdle

NotDedup ==
    <<normVars, matchVars, evalVars, drvVars, repVars, ordVars, mainVars, waitVars,
      sugVars>>

\* Lines 78-86: one pass of the loop over df.columns.
DedupColumn ==
    /\ dedup_pc = "for"
    /\ Len(new_cols) < Len(df_columns)
    /\ LET col == df_columns[Len(new_cols) + 1]
           count == counts_get(counts, col)
       IN /\ new_cols' = Append(new_cols, new_name(col, count))
          /\ counts' = [c \in DOMAIN counts \cup {col} |->
                          IF c = col THEN count + 1 ELSE counts[c]]
    /\ UNCHANGED <<dedup_pc, df_columns, NotDedup>>

\* Lines 88-89: df.columns = new_cols; return df.
DedupReturn ==
    /\ dedup_pc = "for"
    /\ Len(new_cols) = Len(df_columns)
    /\ dedup_pc' = "returned"
    /\ UNCHANGED <<df_columns, new_cols, counts, NotDedup>>

NextDedup ==
    \/ DedupColumn
    \/ DedupReturn

SpecDedup == InitDedup /\ [][NextDedup]_vars

\* Number of positions before i that hold the name at i.
EarlierRepeats(cols, i) == Cardinality({j \in 1..(i - 1) : cols[j] = cols[i]})

(* C30 as claimed: after deduplicate_columns the column names are pairwise *)
(* distinct, the first occurrence of a name is unchanged and its k-th      *)
(* repeat is named name_k.                                                 *)
C30_DistinctColumns ==
    dedup_pc = "returned" =>
        /\ \A i, j \in DOMAIN new_cols : i # j => new_cols[i] # new_cols[j]
        /\ \A i \in DOMAIN new_cols :
              LET k == EarlierRepeats(df_columns, i)
              IN new_cols[i] = IF k = 0 THEN df_columns[i]
                               ELSE df_columns[i] \o <<"_">> \o NatToStr(k)

\* The renaming part alone: first occurrences unchanged, the k-th repeat
\* named name_k.
C30_Renaming ==
    dedup_pc = "returned" =>
        /\ Len(new_cols) = Len(df_columns)
        /\ \A i \in DOMAIN new_cols :
              LET k == EarlierRepeats(df_columns, i)
              IN new_cols[i] = IF k = 0 THEN df_columns[i]
                               ELSE df_columns[i] \o <<"_">> \o NatToStr(k)

\* The names are distinct when no input name is another input name with a
\* number appended.
C30_DistinctWithoutSuffixedInput ==
    (dedup_pc = "returned" /\ ~(C_col \in Range(df_columns) /\ C_col_1 \in Range(df_columns))) =>
        \A i, j \in DOMAIN new_cols : i # j => new_cols[i] # new_cols[j]

====
